---------------------------- MODULE Spec2Model ----------------------------
(***************************************************************************)
(* Verification model of the vst-rust-wasm synthesizer core:               *)
(*   - NoteQueue  (plugin/src/lib.rs)  lock-free SPSC ring of note events  *)
(*   - VisBuffer  (plugin/src/lib.rs)  lock-free double buffer of samples  *)
(*   - Envelope   (dsp-core/src/envelope.rs)  ADSR state machine           *)
(*                                                                         *)
(* Specifications:                                                         *)
(*   SpecSeq   NoteQueue, push/drain calls not overlapping (whole calls)   *)
(*   SpecConc  NoteQueue, one producer and one consumer interleaved at     *)
(*             each atomic load/store                                      *)
(*   SpecVis   VisBuffer, one writer and one reader interleaved at each    *)
(*             memory access                                               *)
(*   SpecEnv   Envelope under every sequence of its public calls, f32      *)
(*             arithmetic taken as exact                                   *)
(*   SpecF32   Envelope ramps with f32 arithmetic rounded to MantissaBits  *)
(*             bits (round to nearest, ties to even), next to exact runs   *)
(*                                                                         *)
(* f32 values are modelled as rationals <<num, den>>.  The variable        *)
(* mant_bits fixes the arithmetic of a run: 0 is exact, p > 0 rounds every *)
(* literal, argument and operation result to p mantissa bits.  The         *)
(* exponent range (overflow, subnormals) and infinities are outside the    *)
(* model.                                                                  *)
(***************************************************************************)
EXTENDS Integers, Sequences, FiniteSets, TLC

VARIABLES
    \* ---- NoteQueue fields (lib.rs:90-98)
    slots,          \* [0..NOTE_QUEUE_SIZE-1 -> u8]
    write_head,     \* next slot the producer writes
    read_head,      \* next slot the consumer reads
    \* ---- producer thread inside push_raw (lib.rs:119-128)
    p_pc, p_event, p_value, p_head, p_next,
    \* ---- consumer thread inside drain (lib.rs:131-144)
    c_pc, c_tail, c_raw,
    \* ---- NoteQueue observation (history) variables
    pushed,         \* events whose push returned true, in push order
    delivered,      \* (is_on, note) pairs passed to the drain callback
    push_ret,       \* return value of the last finished push ("none" at start)
    q_last,         \* last finished call: "new", "push" or "drain"
    unread,         \* slots stored by the producer and not yet loaded by drain
    clobbered,      \* TRUE once the producer stored into a slot in unread
    drain_calls,    \* callbacks made so far by the drain in progress (else 0)
    drain_pushes,   \* pushes that returned true while it is in progress (else 0)
    drain_obs,      \* whether the run keeps the two counts above
    \* ---- VisBuffer fields (lib.rs:25-30)
    buffers,        \* [0..1 -> [0..VIS_BUFFER_SIZE-1 -> sample]]
    write_pos,
    front,
    \* ---- writer thread inside push (lib.rs:56-74)
    w_pc, w_sample, w_front, w_back, w_pos, w_next,
    \* ---- reader thread: read_front and the walk over the returned array
    r_pc, r_idx, r_i, r_copy,
    \* ---- VisBuffer observation (history) variables
    vis_pushed,     \* samples of all finished pushes, in push order
    raced,          \* TRUE once push stored into the array the reader walks
    \* ---- Envelope (envelope.rs:7-22) and its observation variables
    env,            \* record of the Envelope fields
    env_out,        \* value returned by the last tick (<<>> before the first)
    env_last,       \* last call on the envelope: new, set, note_on, note_off, tick
    rel_obs,        \* what followed the note_off that began the observed release
    rel_ticks,      \* ticks since that note_off
    note_offs,      \* number of note_off calls made on an active envelope
    on_obs,         \* stage and level just before the note_on under observation
    atk_ticks,      \* ticks in Attack since a note_on from Idle (-1: not observed)
    dec_ticks,      \* ticks in Decay since Decay was entered (-1: not observed)
    mant_bits,      \* f32 arithmetic of the run: 0 exact, p rounded to p bits
    \* ---- Synth (dsp-core/src/lib.rs:18-24) and its observation variables
    synth,          \* record of the Synth fields
    twin,           \* a second Synth given the same calls but its own gain
    syn_call,       \* last call on the engines: <<name, argument>>
    out_buf,        \* buffer written by the last process call on synth
    out_twin,       \* buffer written by the last process call on twin
    out_osc,        \* oscillator samples of the last process call on synth
    out_env,        \* envelope levels of the last process call on synth
    samples_done,   \* samples written by all process calls so far
    \* ---- Oscillator alone (dsp-core/src/oscillator.rs:9-17) and observations
    osc,            \* record of the Oscillator fields
    osc_before,     \* <<phase, tri_integrator>> just before the last call
    osc_call,       \* last call on the oscillator: <<name>> or <<name, argument>>
    osc_out,        \* sample returned by the last tick
    osc_ticks,      \* ticks since the last reset (or since construction)
    osc_steady,     \* no set_frequency / set_sample_rate since that reset
    \* ---- WasmSynth (web-worklet/src/lib.rs:10-17) and observations
    wasm,           \* record of the WasmSynth fields
    wasm_call,      \* last call on it
    wasm_ret,       \* what that call returned
    wasm_calls,     \* number of process_audio calls so far
    wasm_prev_pos,  \* vis_write_pos before the last process_audio
    wrapped_since,  \* vis_write_pos wrapped to 0 since the last vis_ready call
    wrapped_obs,    \* wrapped_since as it was when vis_ready was last called
    \* ---- midi_note_to_freq (dsp-core/src/lib.rs:10-12)
    midi_note,      \* the note last converted (-1 before the first)
    midi_freq,      \* its frequency
    \* ---- SimpleSynth (plugin/src/lib.rs:147-152) and observations
    plug,           \* record of the fields synth, note_queue, vis_buffer
    plug_call,      \* last call on the plugin or its note queue
    plug_in,        \* num_samples and host events of the last process call
    plug_res,       \* what it did: output channels, log, events fetched
    plug_before,    \* events accepted by the queue before that call began
    plug_pending,   \* events accepted by the queue and not yet drained
    plug_calls,     \* process calls so far
    \* ---- PianoKeyboard (synth-ui/src/keyboard.rs:44-49) and observations
    mouse_note,     \* the caller's Option<u8> behind PianoKeyboard::mouse_note
    kb_in,          \* inputs of the last frame
    kb_prev,        \* mouse_note before that frame
    kb_events,      \* events it returned
    kb_layout,      \* notes of the keys compute_layout gave it
    mouse_log,      \* events the mouse has produced so far
    kb_frames       \* frames so far

qshared == <<slots, write_head, read_head>>
qprod   == <<p_pc, p_event, p_value, p_head, p_next>>
qcons   == <<c_pc, c_tail, c_raw>>
dghost  == <<drain_calls, drain_pushes, drain_obs>>
qghost  == <<pushed, delivered, push_ret, q_last, unread, clobbered, dghost>>
qvars   == <<qshared, qprod, qcons, qghost>>

vshared == <<buffers, write_pos, front>>
vwriter == <<w_pc, w_sample, w_front, w_back, w_pos, w_next>>
vreader == <<r_pc, r_idx, r_i, r_copy>>
vghost  == <<vis_pushed, raced>>
visvars == <<vshared, vwriter, vreader, vghost>>

envvars == <<env, env_out, env_last, rel_obs, rel_ticks, note_offs,
             on_obs, atk_ticks, dec_ticks, mant_bits>>

synvars == <<synth, twin, syn_call, out_buf, out_twin, out_osc, out_env, samples_done>>

oscvars == <<osc, osc_before, osc_call, osc_out, osc_ticks, osc_steady>>

wasmvars == <<wasm, wasm_call, wasm_ret, wasm_calls, wasm_prev_pos,
              wrapped_since, wrapped_obs>>

midivars == <<midi_note, midi_freq>>

plugvars == <<plug, plug_call, plug_in, plug_res, plug_before, plug_pending,
              plug_calls>>

kbvars == <<mouse_note, kb_in, kb_prev, kb_events, kb_layout, mouse_log, kb_frames>>

vars == <<qvars, visvars, envvars, synvars, oscvars, wasmvars, midivars,
          plugvars, kbvars>>

-----------------------------------------------------------------------------
(* Sizes and input sets.                                                   *)

\* Ring size. The source sets 64 (lib.rs:14); the ring is checked at a
\* reduced size, the code being uniform in it.
NOTE_QUEUE_SIZE == 3

\* Double-buffer length. The source sets 2048 (lib.rs:11); checked at a
\* reduced size, the code being uniform in it.
VIS_BUFFER_SIZE == 2

\* Accepted pushes per run of SpecSeq.
MaxPushes == 6

\* Accepted pushes per run of SpecConc.
MaxConcPushes == 4

\* Finished VisBuffer pushes per run.
MaxVisPushes == 6

\* MIDI notes handed to push_note_on / push_note_off.
Notes == {60, 127}

\* Samples handed to VisBuffer::push (0 is the initial content).
Samples == {1, 2}

Slots == 0 .. (NOTE_QUEUE_SIZE - 1)

IsPrefix(s, t) == Len(s) <= Len(t) /\ SubSeq(t, 1, Len(s)) = s

-----------------------------------------------------------------------------
(* NoteQueue: encoding of an event into one u8 slot.                       *)

\* 0xFF, the value every slot holds after NoteQueue::new
EMPTY_SLOT == 255

\* push_note_on: 0x80 | (note & 0x7F), note a u8
EncodeOn(note) == 128 + (note % 128)

\* push_note_off: note & 0x7F
EncodeOff(note) == note % 128

IsOn_NotEmpty(raw) == raw # EMPTY_SLOT /\ (raw \div 128) % 2 = 1

\* drain: raw & 0x80 != 0
IsOn(raw) == (raw \div 128) % 2 = 1

\* drain: raw & 0x7F
NoteOf_Mask6(raw) == raw % 64

NoteOf(raw) == raw % 128

NextSlot_NoWrap(i) == i + 1

\* (i + 1) % NOTE_QUEUE_SIZE
NextSlot(i) == (i + 1) % NOTE_QUEUE_SIZE

\* push_raw's full test: next == read_head
IsFull_OneEarly(next, rh) == NextSlot(next) = rh

IsFull_Never(next, rh) == FALSE

IsFull(next, rh) == next = rh

TailAfter_Stay(tail) == tail

\* drain: (tail + 1) % NOTE_QUEUE_SIZE, the read_head after one event
TailAfter(tail) == NextSlot(tail)

Decode(raw) == <<IsOn(raw), NoteOf(raw)>>

QueueInit ==
    /\ slots = [i \in Slots |-> EMPTY_SLOT]
    /\ write_head = 0
    /\ read_head = 0
    /\ p_pc = "idle" /\ p_event = <<>> /\ p_value = 0 /\ p_head = 0 /\ p_next = 0
    /\ c_pc = "idle" /\ c_tail = 0 /\ c_raw = 0
    /\ pushed = <<>>
    /\ delivered = <<>>
    /\ push_ret = "none"
    /\ q_last = "new"
    /\ unread = {}
    /\ clobbered = FALSE
    /\ drain_calls = 0
    /\ drain_pushes = 0

-----------------------------------------------------------------------------
(* NoteQueue, whole calls (SpecSeq).                                       *)

\* push_raw as one step: the event is stored and write_head advanced unless
\* the ring is full.
SeqPushRaw(event, value) ==
    LET head == write_head
        next == NextSlot(head)
    IN  /\ Len(pushed) < MaxPushes
        /\ IF IsFull(next, read_head)
              THEN /\ push_ret' = FALSE
                   /\ UNCHANGED <<slots, write_head, pushed, unread, clobbered>>
              ELSE /\ slots' = [slots EXCEPT ![head] = value]
                   /\ write_head' = next
                   /\ push_ret' = TRUE
                   /\ pushed' = Append(pushed, event)
                   /\ unread' = unread \cup {head}
                   /\ clobbered' = (clobbered \/ head \in unread)
        /\ q_last' = "push"
        /\ UNCHANGED <<read_head, delivered, qprod, qcons, dghost>>

SeqPushNoteOn(note) ==
    /\ SeqPushRaw(<<TRUE, note>>, EncodeOn(note))
    /\ UNCHANGED <<visvars, envvars, synvars, oscvars, wasmvars, midivars, plugvars, kbvars>>

SeqPushNoteOff(note) ==
    /\ SeqPushRaw(<<FALSE, note>>, EncodeOff(note))
    /\ UNCHANGED <<visvars, envvars, synvars, oscvars, wasmvars, midivars, plugvars, kbvars>>

\* The loop of drain: from tail, pop until tail meets write_head.
RECURSIVE DrainLoop(_, _)
DrainLoop(tail, out) ==
    IF tail = write_head
       THEN [tail |-> tail, out |-> out]
       ELSE DrainLoop(NextSlot(tail), Append(out, Decode(slots[tail])))

SeqDrain ==
    LET r == DrainLoop(read_head, <<>>)
    IN  /\ read_head' = r.tail
        /\ delivered' = delivered \o r.out
        /\ unread' = {}
        /\ q_last' = "drain"
        /\ UNCHANGED <<slots, write_head, pushed, push_ret, clobbered, qprod, qcons,
                       dghost>>
        /\ UNCHANGED <<visvars, envvars, synvars, oscvars, wasmvars, midivars, plugvars, kbvars>>

-----------------------------------------------------------------------------
(* NoteQueue, one event of any u8 note pushed and drained (SpecEnc).       *)

\* The values of a u8
Bytes == 0 .. 255

Enc_PushNoteOn(note) ==
    /\ Len(pushed) = 0
    /\ SeqPushNoteOn(note)

Enc_PushNoteOff(note) ==
    /\ Len(pushed) = 0
    /\ SeqPushNoteOff(note)

NextEnc ==
    \/ \E n \in Bytes : Enc_PushNoteOn(n)
    \/ \E n \in Bytes : Enc_PushNoteOff(n)
    \/ SeqDrain

-----------------------------------------------------------------------------
(* NoteQueue, one producer and one consumer, one atomic access per step    *)
(* (SpecConc).  Acquire/release on the two heads orders the slot accesses, *)
(* so the interleaving of the individual loads and stores is the model.    *)

P_Call(event, value) ==
    /\ p_pc = "idle"
    /\ Len(pushed) < MaxConcPushes
    /\ p_event' = event
    /\ p_value' = value
    /\ p_pc' = "load_head"
    /\ UNCHANGED <<p_head, p_next, qshared, qcons, qghost>>

\* push_note_on(note) is entered
P_PushNoteOn(note) ==
    /\ P_Call(<<TRUE, note>>, EncodeOn(note))
    /\ UNCHANGED <<visvars, envvars, synvars, oscvars, wasmvars, midivars, plugvars, kbvars>>

\* push_note_off(note) is entered
P_PushNoteOff(note) ==
    /\ P_Call(<<FALSE, note>>, EncodeOff(note))
    /\ UNCHANGED <<visvars, envvars, synvars, oscvars, wasmvars, midivars, plugvars, kbvars>>

\* let head = write_head.load(Relaxed); let next = (head + 1) % N
P_LoadHead ==
    /\ p_pc = "load_head"
    /\ p_head' = write_head
    /\ p_next' = NextSlot(write_head)
    /\ p_pc' = "check"
    /\ UNCHANGED <<p_event, p_value, qshared, qcons, qghost>>
    /\ UNCHANGED <<visvars, envvars, synvars, oscvars, wasmvars, midivars, plugvars, kbvars>>

\* if next == read_head.load(Acquire) { return false }
P_Check ==
    /\ p_pc = "check"
    /\ IF IsFull(p_next, read_head)
          THEN /\ p_pc' = "idle"
               /\ push_ret' = FALSE
               /\ q_last' = "push"
          ELSE /\ p_pc' = "store_slot"
               /\ UNCHANGED <<push_ret, q_last>>
    /\ UNCHANGED <<p_event, p_value, p_head, p_next, qshared, qcons,
                   pushed, delivered, unread, clobbered, dghost>>
    /\ UNCHANGED <<visvars, envvars, synvars, oscvars, wasmvars, midivars, plugvars, kbvars>>

\* slots[head].store(value, Release)
P_StoreSlot ==
    /\ p_pc = "store_slot"
    /\ slots' = [slots EXCEPT ![p_head] = p_value]
    /\ clobbered' = (clobbered \/ p_head \in unread)
    /\ unread' = unread \cup {p_head}
    /\ p_pc' = "store_head"
    /\ UNCHANGED <<p_event, p_value, p_head, p_next, write_head, read_head, qcons,
                   pushed, delivered, push_ret, q_last, dghost>>
    /\ UNCHANGED <<visvars, envvars, synvars, oscvars, wasmvars, midivars, plugvars, kbvars>>

\* write_head.store(next, Release); true
P_StoreHead ==
    /\ p_pc = "store_head"
    /\ write_head' = p_next
    /\ pushed' = Append(pushed, p_event)
    /\ push_ret' = TRUE
    /\ q_last' = "push"
    /\ p_pc' = "idle"
    /\ drain_pushes' = IF drain_obs /\ c_pc # "idle" THEN drain_pushes + 1 ELSE 0
    /\ UNCHANGED <<p_event, p_value, p_head, p_next, slots, read_head, qcons,
                   delivered, unread, clobbered, drain_calls, drain_obs>>
    /\ UNCHANGED <<visvars, envvars, synvars, oscvars, wasmvars, midivars, plugvars, kbvars>>

\* drain is entered
C_Drain ==
    /\ c_pc = "idle"
    /\ c_pc' = "load_tail"
    /\ drain_calls' = 0
    /\ drain_pushes' = 0
    /\ UNCHANGED <<c_tail, c_raw, qshared, qprod,
                   pushed, delivered, push_ret, q_last, unread, clobbered, drain_obs>>
    /\ UNCHANGED <<visvars, envvars, synvars, oscvars, wasmvars, midivars, plugvars, kbvars>>

\* let tail = read_head.load(Relaxed)
C_LoadTail ==
    /\ c_pc = "load_tail"
    /\ c_tail' = read_head
    /\ c_pc' = "check"
    /\ UNCHANGED <<c_raw, qshared, qprod, qghost>>
    /\ UNCHANGED <<visvars, envvars, synvars, oscvars, wasmvars, midivars, plugvars, kbvars>>

\* if tail == write_head.load(Acquire) { break }
C_Check ==
    /\ c_pc = "check"
    /\ IF c_tail = write_head
          THEN /\ c_pc' = "idle"
               /\ q_last' = "drain"
               /\ drain_calls' = 0
               /\ drain_pushes' = 0
               /\ UNCHANGED drain_obs
          ELSE /\ c_pc' = "load_slot"
               /\ UNCHANGED <<q_last, dghost>>
    /\ UNCHANGED <<c_tail, c_raw, qshared, qprod,
                   pushed, delivered, push_ret, unread, clobbered>>
    /\ UNCHANGED <<visvars, envvars, synvars, oscvars, wasmvars, midivars, plugvars, kbvars>>

\* let raw = slots[tail].load(Acquire)
C_LoadSlot ==
    /\ c_pc = "load_slot"
    /\ c_raw' = slots[c_tail]
    /\ unread' = unread \ {c_tail}
    /\ c_pc' = "callback"
    /\ UNCHANGED <<c_tail, qshared, qprod,
                   pushed, delivered, push_ret, q_last, clobbered, dghost>>
    /\ UNCHANGED <<visvars, envvars, synvars, oscvars, wasmvars, midivars, plugvars, kbvars>>

\* callback(raw & 0x80 != 0, raw & 0x7F)
C_Callback ==
    /\ c_pc = "callback"
    /\ delivered' = Append(delivered, Decode(c_raw))
    /\ c_pc' = "store_tail"
    /\ drain_calls' = IF drain_obs THEN drain_calls + 1 ELSE 0
    /\ UNCHANGED <<c_tail, c_raw, qshared, qprod,
                   pushed, push_ret, q_last, unread, clobbered, drain_pushes, drain_obs>>
    /\ UNCHANGED <<visvars, envvars, synvars, oscvars, wasmvars, midivars, plugvars, kbvars>>

\* read_head.store((tail + 1) % N, Release); loop
C_StoreTail ==
    /\ c_pc = "store_tail"
    /\ read_head' = TailAfter(c_tail)
    /\ c_pc' = "load_tail"
    /\ UNCHANGED <<c_tail, c_raw, slots, write_head, qprod, qghost>>
    /\ UNCHANGED <<visvars, envvars, synvars, oscvars, wasmvars, midivars, plugvars, kbvars>>

-----------------------------------------------------------------------------
(* VisBuffer: one writer in push, one reader that calls read_front and     *)
(* then reads the elements of the returned array one after another         *)
(* (SpecVis).  A read that races with a store returns the old or the new   *)
(* element; the interleaving of single accesses yields both.               *)

BufIdx == 0 .. (VIS_BUFFER_SIZE - 1)

\* [0.0; VIS_BUFFER_SIZE]
ZeroBuffer == [i \in BufIdx |-> 0]

\* let back = 1 - front
BackOf_Front(f) == f

BackOf(f) == 1 - f

\* let next_pos = (pos + 1) % VIS_BUFFER_SIZE
NextPos(pos) == (pos + 1) % VIS_BUFFER_SIZE

\* if next_pos == 0
Wrapped_Always(next_pos) == TRUE

Wrapped_OldPos(next_pos) == next_pos = 1

Wrapped(next_pos) == next_pos = 0

VisInit ==
    /\ buffers = [b \in 0 .. 1 |-> ZeroBuffer]
    /\ write_pos = 0
    /\ front = 0
    /\ w_pc = "idle" /\ w_sample = 0 /\ w_front = 0 /\ w_back = 0
    /\ w_pos = 0 /\ w_next = 0
    /\ r_pc = "idle" /\ r_idx = 0 /\ r_i = 0 /\ r_copy = <<>>
    /\ vis_pushed = <<>>
    /\ raced = FALSE

\* push(sample) is entered
W_Push(sample) ==
    /\ w_pc = "idle"
    /\ Len(vis_pushed) < MaxVisPushes
    /\ w_sample' = sample
    /\ w_pc' = "load_front"
    /\ UNCHANGED <<w_front, w_back, w_pos, w_next, vshared, vreader, vghost>>
    /\ UNCHANGED <<qvars, envvars, synvars, oscvars, wasmvars, midivars, plugvars, kbvars>>

\* let front = self.front.load(Relaxed); let back = 1 - front
W_LoadFront ==
    /\ w_pc = "load_front"
    /\ w_front' = front
    /\ w_back' = BackOf(front)
    /\ w_pc' = "load_pos"
    /\ UNCHANGED <<w_sample, w_pos, w_next, vshared, vreader, vghost>>
    /\ UNCHANGED <<qvars, envvars, synvars, oscvars, wasmvars, midivars, plugvars, kbvars>>

\* let pos = self.write_pos.load(Relaxed)
W_LoadPos ==
    /\ w_pc = "load_pos"
    /\ w_pos' = write_pos
    /\ w_pc' = "store_sample"
    /\ UNCHANGED <<w_sample, w_front, w_back, w_next, vshared, vreader, vghost>>
    /\ UNCHANGED <<qvars, envvars, synvars, oscvars, wasmvars, midivars, plugvars, kbvars>>

\* (*self.buffers[back].get())[pos] = sample
W_StoreSample ==
    /\ w_pc = "store_sample"
    /\ buffers' = [buffers EXCEPT ![w_back][w_pos] = w_sample]
    /\ raced' = (raced \/ (r_pc = "reading" /\ r_idx = w_back))
    /\ w_pc' = "store_pos"
    /\ UNCHANGED <<w_sample, w_front, w_back, w_pos, w_next, write_pos, front,
                   vreader, vis_pushed>>
    /\ UNCHANGED <<qvars, envvars, synvars, oscvars, wasmvars, midivars, plugvars, kbvars>>

\* self.write_pos.store(next_pos, Relaxed); push returns here unless the
\* cursor wrapped
W_StorePos ==
    /\ w_pc = "store_pos"
    /\ w_next' = NextPos(w_pos)
    /\ write_pos' = NextPos(w_pos)
    /\ IF Wrapped(NextPos(w_pos))
          THEN /\ w_pc' = "store_front"
               /\ UNCHANGED vis_pushed
          ELSE /\ w_pc' = "idle"
               /\ vis_pushed' = Append(vis_pushed, w_sample)
    /\ UNCHANGED <<w_sample, w_front, w_back, w_pos, buffers, front, vreader, raced>>
    /\ UNCHANGED <<qvars, envvars, synvars, oscvars, wasmvars, midivars, plugvars, kbvars>>

\* self.front.store(back, Release)
W_StoreFront ==
    /\ w_pc = "store_front"
    /\ front' = w_back
    /\ w_pc' = "idle"
    /\ vis_pushed' = Append(vis_pushed, w_sample)
    /\ UNCHANGED <<w_sample, w_front, w_back, w_pos, w_next, buffers, write_pos,
                   vreader, raced>>
    /\ UNCHANGED <<qvars, envvars, synvars, oscvars, wasmvars, midivars, plugvars, kbvars>>

\* read_front: let idx = self.front.load(Acquire); &*self.buffers[idx].get()
R_ReadFront ==
    /\ r_pc \in {"idle", "done"}
    /\ r_idx' = front
    /\ r_i' = 0
    /\ r_copy' = <<>>
    /\ r_pc' = "reading"
    /\ UNCHANGED <<vshared, vwriter, vghost>>
    /\ UNCHANGED <<qvars, envvars, synvars, oscvars, wasmvars, midivars, plugvars, kbvars>>

\* the caller reads the next element through the returned reference
R_ReadElem ==
    /\ r_pc = "reading"
    /\ r_copy' = Append(r_copy, buffers[r_idx][r_i])
    /\ r_i' = r_i + 1
    /\ r_pc' = IF r_i + 1 = VIS_BUFFER_SIZE THEN "done" ELSE "reading"
    /\ UNCHANGED <<r_idx, vshared, vwriter, vghost>>
    /\ UNCHANGED <<qvars, envvars, synvars, oscvars, wasmvars, midivars, plugvars, kbvars>>

-----------------------------------------------------------------------------
(* f32 values as exact rationals <<numerator, denominator>>, denominator   *)
(* positive, in lowest terms; <<0, 0>> is NaN.                             *)

Abs(x) == IF x < 0 THEN -x ELSE x

RECURSIVE GCD(_, _)
GCD(a, b) == IF b = 0 THEN a ELSE GCD(b, a % b)

NaN == <<0, 0>>

IsNaN(x) == x[2] = 0

\* n/d in lowest terms; an operation on a NaN yields d = 0 and so NaN
Rat(n, d) ==
    IF d = 0 THEN NaN
    ELSE LET g == GCD(Abs(n), Abs(d))
             sgn == IF d < 0 THEN -1 ELSE 1
         IN  <<(sgn * n) \div g, (sgn * d) \div g>>

RAdd(a, b) == Rat(a[1] * b[2] + b[1] * a[2], a[2] * b[2])
RSub(a, b) == Rat(a[1] * b[2] - b[1] * a[2], a[2] * b[2])
RMul(a, b) == Rat(a[1] * b[1], a[2] * b[2])
RDiv(a, b) == Rat(a[1] * b[2], a[2] * b[1])
\* comparisons: false when an operand is NaN
RLe(a, b)  == ~IsNaN(a) /\ ~IsNaN(b) /\ a[1] * b[2] <= b[1] * a[2]
RLt(a, b)  == ~IsNaN(a) /\ ~IsNaN(b) /\ a[1] * b[2] < b[1] * a[2]
RGe(a, b)  == RLe(b, a)

\* f32::max: the other operand when one is NaN
RMax(a, b) == IF IsNaN(a) THEN b
              ELSE IF IsNaN(b) THEN a
              ELSE IF RLt(a, b) THEN b ELSE a

\* f32::clamp: NaN when x is NaN
RClamp(x, lo, hi) == IF RLt(x, lo) THEN lo ELSE IF RLt(hi, x) THEN hi ELSE x

ZERO == <<0, 1>>
ONE  == <<1, 1>>

\* Mantissa width of the rounded runs.  f32 has 24 bits; the rounding is
\* checked at a reduced width, the code being uniform in it.
MantissaBits == 4

RECURSIVE Pow2(_)
Pow2(k) == IF k = 0 THEN 1 ELSE 2 * Pow2(k - 1)

\* n/d to the nearest integer, ties to even (n >= 0, d > 0)
RoundInt(n, d) ==
    LET q  == n \div d
        r2 == 2 * (n % d)
    IN  IF r2 > d \/ (r2 = d /\ q % 2 = 1) THEN q + 1 ELSE q

\* (n/d) * 2^(-k) to the nearest m * 2^(-k'), 2^(p-1) <= m <= 2^p: n/d is
\* doubled or halved until it has p bits before the point, then rounded
RECURSIVE RoundScaled(_, _, _, _)
RoundScaled(n, d, k, p) ==
    IF n < d * Pow2(p - 1) THEN RoundScaled(2 * n, d, k + 1, p)
    ELSE IF n >= d * Pow2(p) THEN RoundScaled(n, 2 * d, k - 1, p)
    ELSE LET m == RoundInt(n, d)
         IN  IF k >= 0 THEN Rat(m, Pow2(k)) ELSE Rat(m * Pow2(-k), 1)

\* x as a float of p mantissa bits
RoundTo(x, p) ==
    IF x[1] = 0 THEN x
    ELSE IF x[1] > 0 THEN RoundScaled(x[1], x[2], 0, p)
    ELSE LET r == RoundScaled(-x[1], x[2], 0, p) IN <<-r[1], r[2]>>

\* x as the f32 of the run
F32(x) == IF mant_bits = 0 THEN x ELSE RoundTo(x, mant_bits)

\* f32 + - * /
FAdd(a, b) == F32(RAdd(a, b))
FSub(a, b) == F32(RSub(a, b))
FMul(a, b) == F32(RMul(a, b))
FDiv(a, b) == F32(RDiv(a, b))

-----------------------------------------------------------------------------
(* Envelope (dsp-core/src/envelope.rs).                                    *)

\* 0.001, the floor of the three time setters
MIN_TIME == F32(<<1, 1000>>)

\* recalculate_rates
RecalculateRates(e) ==
    [e EXCEPT !.attack_rate  = FDiv(ONE, FMul(e.attack, e.sample_rate)),
              !.decay_rate   = FDiv(FSub(ONE, e.sustain), FMul(e.decay, e.sample_rate)),
              !.release_rate = FDiv(e.sustain, FMul(e.release, e.sample_rate))]

\* Envelope::new
EnvNew ==
    RecalculateRates(
        [stage |-> "Idle", level |-> ZERO, sample_rate |-> F32(<<44100, 1>>),
         attack |-> F32(<<1, 100>>), decay |-> F32(<<1, 10>>),
         sustain |-> F32(<<7, 10>>), release |-> F32(<<3, 10>>),
         attack_rate |-> ZERO, decay_rate |-> ZERO, release_rate |-> ZERO])

SetSampleRate(e, sample_rate) ==
    RecalculateRates([e EXCEPT !.sample_rate = sample_rate])

SetAttack(e, seconds) ==
    LET a == RMax(seconds, MIN_TIME)
    IN  [e EXCEPT !.attack = a,
                  !.attack_rate = FDiv(ONE, FMul(a, e.sample_rate))]

SetDecay(e, seconds) ==
    LET d == RMax(seconds, MIN_TIME)
    IN  [e EXCEPT !.decay = d,
                  !.decay_rate = FDiv(FSub(ONE, e.sustain), FMul(d, e.sample_rate))]

SetSustain_MoveLevel(e, level) ==
    LET s == RClamp(level, ZERO, ONE)
    IN  [e EXCEPT !.sustain = s,
                  !.level = IF e.stage = "Sustain" THEN s ELSE e.level,
                  !.decay_rate = FDiv(FSub(ONE, s), FMul(e.decay, e.sample_rate))]

SetSustain(e, level) ==
    LET s == RClamp(level, ZERO, ONE)
    IN  [e EXCEPT !.sustain = s,
                  !.decay_rate = FDiv(FSub(ONE, s), FMul(e.decay, e.sample_rate))]

SetRelease(e, seconds) ==
    LET r == RMax(seconds, MIN_TIME)
    IN  [e EXCEPT !.release = r,
                  !.release_rate = FDiv(e.sustain, FMul(r, e.sample_rate))]

NoteOn_ResetLevel(e) == [e EXCEPT !.stage = "Attack", !.level = ZERO]

NoteOn(e) == [e EXCEPT !.stage = "Attack"]

NoteOff_FromIdle(e) ==
    [e EXCEPT !.stage = "Release",
              !.release_rate = FDiv(e.level, FMul(e.release, e.sample_rate))]

NoteOff_FullScale(e) ==
    IF e.stage # "Idle"
       THEN [e EXCEPT !.stage = "Release",
                      !.release_rate = FDiv(ONE, FMul(e.release, e.sample_rate))]
       ELSE e

NoteOff_RateInIdle(e) ==
    [e EXCEPT !.stage = IF e.stage # "Idle" THEN "Release" ELSE e.stage,
              !.release_rate = FDiv(e.level, FMul(e.release, e.sample_rate))]

NoteOff(e) ==
    IF e.stage # "Idle"
       THEN [e EXCEPT !.stage = "Release",
                      !.release_rate = FDiv(e.level, FMul(e.release, e.sample_rate))]
       ELSE e

IsActive(e) == e.stage # "Idle"

\* tick, Attack arm
TickAttack_NoClamp(e) ==
    LET l == FAdd(e.level, e.attack_rate)
    IN  IF RGe(l, ONE) THEN [e EXCEPT !.level = l, !.stage = "Decay"]
                       ELSE [e EXCEPT !.level = l]

TickAttack_StrictGe(e) ==
    LET l == FAdd(e.level, e.attack_rate)
    IN  IF RLt(ONE, l) THEN [e EXCEPT !.level = ONE, !.stage = "Decay"]
                       ELSE [e EXCEPT !.level = l]

TickAttack(e) ==
    LET l == FAdd(e.level, e.attack_rate)
    IN  IF RGe(l, ONE) THEN [e EXCEPT !.level = ONE, !.stage = "Decay"]
                       ELSE [e EXCEPT !.level = l]

\* tick, Decay arm
TickDecay_NoClamp(e) ==
    LET l == FSub(e.level, e.decay_rate)
    IN  IF RLe(l, e.sustain) THEN [e EXCEPT !.level = l, !.stage = "Sustain"]
                             ELSE [e EXCEPT !.level = l]

TickDecay(e) ==
    LET l == FSub(e.level, e.decay_rate)
    IN  IF RLe(l, e.sustain) THEN [e EXCEPT !.level = e.sustain, !.stage = "Sustain"]
                             ELSE [e EXCEPT !.level = l]

\* tick, Release arm
TickRelease_NoClamp(e) ==
    LET l == FSub(e.level, e.release_rate)
    IN  IF RLe(l, ZERO) THEN [e EXCEPT !.level = l, !.stage = "Idle"]
                        ELSE [e EXCEPT !.level = l]

TickRelease(e) ==
    LET l == FSub(e.level, e.release_rate)
    IN  IF RLe(l, ZERO) THEN [e EXCEPT !.level = ZERO, !.stage = "Idle"]
                        ELSE [e EXCEPT !.level = l]

\* tick: the envelope after the call and the value returned
Tick(e) ==
    LET after == CASE e.stage = "Idle"    -> e
                   [] e.stage = "Attack"  -> TickAttack(e)
                   [] e.stage = "Decay"   -> TickDecay(e)
                   [] e.stage = "Sustain" -> e
                   [] e.stage = "Release" -> TickRelease(e)
    IN  [env |-> after, out |-> IF e.stage = "Idle" THEN ZERO ELSE after.level]

-----------------------------------------------------------------------------
(* Oscillator (dsp-core/src/oscillator.rs).                                *)

HALF == <<1, 2>>
TWO  == <<2, 1>>
FOUR == <<4, 1>>
MINUS_ONE == <<-1, 1>>

\* OscillatorType (params.rs:3-8)
OscillatorTypes == {"Sine", "Triangle", "Square", "Saw"}

\* Oscillator::new
OscNew ==
    [phase |-> ZERO, phase_delta |-> ZERO, sample_rate |-> F32(<<44100, 1>>),
     frequency |-> F32(<<440, 1>>), osc_type |-> "Sine", tri_integrator |-> ZERO]

\* update_phase_delta
UpdatePhaseDelta(o) == [o EXCEPT !.phase_delta = FDiv(o.frequency, o.sample_rate)]

OscSetSampleRate(o, sample_rate) ==
    UpdatePhaseDelta([o EXCEPT !.sample_rate = sample_rate])

OscSetFrequency(o, frequency) ==
    UpdatePhaseDelta([o EXCEPT !.frequency = frequency])

OscSetType(o, osc_type) == [o EXCEPT !.osc_type = osc_type]

OscReset_KeepIntegrator(o) == [o EXCEPT !.phase = ZERO]

OscReset(o) == [o EXCEPT !.phase = ZERO, !.tri_integrator = ZERO]

\* x % 1.0 (the remainder has the sign of x)
FRem1(x) ==
    IF IsNaN(x) THEN x
    ELSE IF x[1] >= 0 THEN Rat(x[1] % x[2], x[2])
    ELSE Rat(-((-x[1]) % x[2]), x[2])

\* (phase * 2.0 * PI).sin(): modelled at the quarter points of the period,
\* where the sine is rational; the runs keep Sine phases on these points.
\* The sine of a phase of 1 or more is that of its fractional part.
GenerateSine(phase) ==
    CASE FRem1(phase) = ZERO      -> ZERO
      [] FRem1(phase) = <<1, 4>>  -> ONE
      [] FRem1(phase) = HALF      -> ZERO
      [] FRem1(phase) = <<3, 4>>  -> MINUS_ONE

\* polyblep(t, dt): the branch for t < dt, on t / dt
PolyblepRise(u) == FSub(FSub(FMul(TWO, u), FMul(u, u)), ONE)

\* polyblep(t, dt): the branch for t > 1 - dt, on (t - 1) / dt
PolyblepFall(u) == FAdd(FAdd(FMul(u, u), FMul(TWO, u)), ONE)

\* polyblep(t, dt)
Polyblep(t, dt) ==
    IF RLt(t, dt)
       THEN PolyblepRise(FDiv(t, dt))
       ELSE IF RLt(FSub(ONE, dt), t)
               THEN PolyblepFall(FDiv(FSub(t, ONE), dt))
               ELSE ZERO

\* generate_saw_polyblep
GenerateSawPolyblep(phase, dt) ==
    FSub(FSub(FMul(TWO, phase), ONE), Polyblep(phase, dt))

\* generate_square_polyblep
GenerateSquarePolyblep(phase, dt) ==
    LET naive == IF RLt(phase, HALF) THEN ONE ELSE MINUS_ONE
    IN  FSub(FAdd(naive, Polyblep(phase, dt)),
             Polyblep(FRem1(FAdd(phase, HALF)), dt))

\* The Triangle arm of tick: the leaky integrator fed with the square
TriIntegrate(o, square) ==
    FAdd(FMul(o.phase_delta, square),
         FMul(FSub(ONE, o.phase_delta), o.tri_integrator))

TriSample(tri) == [tri |-> tri, sample |-> FMul(tri, FOUR)]

\* The match of tick: the sample, and the integrator it leaves
Generate(o) ==
    CASE o.osc_type = "Sine" ->
            [tri |-> o.tri_integrator, sample |-> GenerateSine(o.phase)]
      [] o.osc_type = "Saw" ->
            [tri |-> o.tri_integrator,
             sample |-> GenerateSawPolyblep(o.phase, o.phase_delta)]
      [] o.osc_type = "Square" ->
            [tri |-> o.tri_integrator,
             sample |-> GenerateSquarePolyblep(o.phase, o.phase_delta)]
      [] o.osc_type = "Triangle" ->
            TriSample(TriIntegrate(o, GenerateSquarePolyblep(o.phase, o.phase_delta)))

\* if self.phase >= 1.0 { self.phase -= 1.0 }
WrapPhase(phase) == IF RGe(phase, ONE) THEN FSub(phase, ONE) ELSE phase

\* The phase advance of tick, after the match gave g
Advance(o, g) ==
    [osc |-> [o EXCEPT !.phase = WrapPhase(FAdd(o.phase, o.phase_delta)),
                       !.tri_integrator = g.tri],
     out |-> g.sample]

\* the sample taken after the phase advance instead of before it
OscTick_AdvanceFirst(o) ==
    Advance(o, Generate([o EXCEPT !.phase = WrapPhase(FAdd(o.phase, o.phase_delta))]))

\* Oscillator::tick: the oscillator after the call and the sample returned
OscTick(o) == Advance(o, Generate(o))

-----------------------------------------------------------------------------
(* OscillatorType::from_index (dsp-core/src/params.rs).                    *)

VARIANTS == <<"Sine", "Triangle", "Square", "Saw">>

Min(a, b) == IF a < b THEN a ELSE b

FromIndex_Wrap(index) == VARIANTS[(index % Len(VARIANTS)) + 1]

\* Self::VARIANTS[index.min(Self::VARIANTS.len() - 1)]; the slice is
\* indexed from 0, the tuple from 1
FromIndex(index) == VARIANTS[Min(index, Len(VARIANTS) - 1) + 1]

-----------------------------------------------------------------------------
(* Synth (dsp-core/src/lib.rs).                                            *)

\* Option<u8>
None == <<>>
Some(n) == <<n>>

\* 2^(r/12) for r = 0 .. 11, in 256ths: the whole numbers below and above
\* it.  An f32 result of powf lies between the two; for r = 0 it is exact.
SEMITONES ==
    << <<256, 256>>, <<271, 272>>, <<287, 288>>, <<304, 305>>,
       <<322, 323>>, <<341, 342>>, <<362, 363>>, <<383, 384>>,
       <<406, 407>>, <<430, 431>>, <<456, 457>>, <<483, 484>> >>

\* 2.0f32.powf(e / 12.0) for a whole e: e = 12 q + r with 0 <= r < 12, and
\* the result is 2^q times the lower (up = FALSE) or the upper (up = TRUE)
\* bound of 2^(r/12)
Powf2(e, up) ==
    LET q == e \div 12
        b == SEMITONES[(e % 12) + 1][IF up THEN 2 ELSE 1]
    IN  IF q >= 0 THEN F32(Rat(Pow2(q) * b, 256))
                  ELSE F32(Rat(b, 256 * Pow2(-q)))

MidiNoteToFreqIn_FromC4(note, up) == FMul(<<440, 1>>, Powf2(note - 60, up))

\* midi_note_to_freq: 440.0 * 2.0f32.powf((note as f32 - 69.0) / 12.0), with
\* the result of powf at its lower or upper bound
MidiNoteToFreqIn(note, up) == FMul(<<440, 1>>, Powf2(note - 69, up))

\* the values midi_note_to_freq(note) can have
MidiNoteToFreqs(note) == {MidiNoteToFreqIn(note, up) : up \in BOOLEAN}

\* midi_note_to_freq as the engine calls it: the notes of the engine's runs
\* are a whole number of octaves from note 69, where the bounds coincide
MidiNoteToFreq(note) == MidiNoteToFreqIn(note, FALSE)

\* Synth::new
SynthNew ==
    [oscillator |-> OscNew, envelope |-> EnvNew, sample_rate |-> F32(<<44100, 1>>),
     gain |-> F32(<<4, 5>>), current_note |-> None]

\* Synth::prepare
Prepare(s, sample_rate) ==
    [s EXCEPT !.sample_rate = sample_rate,
              !.oscillator = OscSetSampleRate(@, sample_rate),
              !.envelope = SetSampleRate(@, sample_rate)]

SynthSetOscillatorType(s, osc_type) ==
    [s EXCEPT !.oscillator = OscSetType(@, osc_type)]

SynthSetGain_NoClamp(s, gain) == [s EXCEPT !.gain = gain]

SynthSetGain(s, gain) == [s EXCEPT !.gain = RClamp(gain, ZERO, ONE)]

SynthSetAttack(s, seconds) == [s EXCEPT !.envelope = SetAttack(@, seconds)]

SynthSetDecay(s, seconds) == [s EXCEPT !.envelope = SetDecay(@, seconds)]

SynthSetSustain(s, level) == [s EXCEPT !.envelope = SetSustain(@, level)]

SynthSetRelease(s, seconds) == [s EXCEPT !.envelope = SetRelease(@, seconds)]

SynthNoteOn_KeepPhase(s, note, velocity) ==
    [s EXCEPT !.current_note = Some(note),
              !.oscillator = OscSetFrequency(@, MidiNoteToFreq(note)),
              !.envelope = NoteOn(@)]

\* Synth::note_on (the parameter is _velocity: it is not used)
SynthNoteOn(s, note, velocity) ==
    [s EXCEPT !.current_note = Some(note),
              !.oscillator = OscReset(OscSetFrequency(@, MidiNoteToFreq(note))),
              !.envelope = NoteOn(@)]

SynthNoteOff_AnyNote(s, note) ==
    [s EXCEPT !.envelope = NoteOff(@), !.current_note = None]

SynthNoteOff_KeepNote(s, note) ==
    IF s.current_note = Some(note)
       THEN [s EXCEPT !.envelope = NoteOff(@)]
       ELSE s

\* Synth::note_off
SynthNoteOff(s, note) ==
    IF s.current_note = Some(note)
       THEN [s EXCEPT !.envelope = NoteOff(@), !.current_note = None]
       ELSE s

\* The active branch of the loop of Synth::process, o and e being what
\* oscillator.tick() and envelope.tick() gave
ActiveSample(s, o, e) ==
    [synth  |-> [s EXCEPT !.oscillator = o.osc, !.envelope = e.env],
     sample |-> FMul(FMul(o.out, e.out), s.gain),
     osc    |-> o.out,
     env    |-> e.out]

ActiveSample_NoGain(s, o, e) ==
    [synth  |-> [s EXCEPT !.oscillator = o.osc, !.envelope = e.env],
     sample |-> FMul(o.out, e.out),
     osc    |-> o.out,
     env    |-> e.out]

\* The else branch: 0.0 is written and nothing is ticked
IdleSample(s) == [synth |-> s, sample |-> ZERO, osc |-> <<>>, env |-> <<>>]

IdleSample_TickOscillator(s) ==
    [synth |-> [s EXCEPT !.oscillator = OscTick(@).osc],
     sample |-> ZERO, osc |-> <<>>, env |-> <<>>]

ProcessSample_TickIdle(s) ==
    IF IsActive(s.envelope)
       THEN ActiveSample(s, OscTick(s.oscillator), Tick(s.envelope))
       ELSE IdleSample_TickOscillator(s)

ProcessSample_NoGain(s) ==
    IF IsActive(s.envelope)
       THEN ActiveSample_NoGain(s, OscTick(s.oscillator), Tick(s.envelope))
       ELSE IdleSample(s)

\* One pass of the loop of Synth::process: the engine after it, the sample
\* written, and the oscillator sample and envelope level used (<<>> when
\* neither was ticked)
ProcessSample(s) ==
    IF IsActive(s.envelope)
       THEN ActiveSample(s, OscTick(s.oscillator), Tick(s.envelope))
       ELSE IdleSample(s)

\* The buffer so far with the sample of one more pass
Written(acc, r) ==
    [synth |-> r.synth,
     out   |-> Append(acc.out, r.sample),
     osc   |-> Append(acc.osc, r.osc),
     env   |-> Append(acc.env, r.env)]

\* The for loop of Synth::process over n samples
RECURSIVE ProcessLoop(_, _)
ProcessLoop(acc, n) ==
    IF n = 0 THEN acc
    ELSE ProcessLoop(Written(acc, ProcessSample(acc.synth)), n - 1)

\* Synth::process on a buffer of n samples
SynthProcess(s, n) ==
    ProcessLoop([synth |-> s, out |-> <<>>, osc |-> <<>>, env |-> <<>>], n)

-----------------------------------------------------------------------------
(* Envelope under every sequence of its public calls (SpecEnv).            *)

\* note_off calls on an active envelope per run
MaxNoteOffs == 2

\* Ticks counted in one observed Attack or Decay ramp
MaxRampTicks == 12

\* Sample rates handed to set_sample_rate (Hz)
SampleRates == {<<500, 1>>, <<1000, 1>>}

\* Seconds handed to set_attack / set_decay / set_release: 0 (below the
\* floor) and 0.002
TimeInputs == {ZERO, <<2, 1000>>}

\* Levels handed to set_sustain: -0.5, 0.5 and 1.5
LevelInputs == {<<-1, 2>>, <<1, 2>>, <<3, 2>>}

\* The envelopes a host has configured before the first note: new(), then
\* prepare(sample_rate) and the four setters (plugin lib.rs:296, 310-313).
EnvConfigured ==
    { SetRelease(SetSustain(SetDecay(SetAttack(SetSampleRate(EnvNew, sr), a), d), s), r) :
        sr \in SampleRates, a \in TimeInputs, d \in TimeInputs,
        s \in LevelInputs, r \in TimeInputs }

\* No note_on under observation
NoRetrigger == [from |-> "none", level |-> <<>>, ticked |-> FALSE]

\* Sample rate of the ramp runs (Hz)
RampRates == {<<1024, 1>>}

\* Seconds handed to set_attack in the ramp runs: 7 samples at 1024 Hz
RampAttacks == {<<7, 1024>>}

\* Seconds handed to set_decay in the ramp runs: 3 samples at 1024 Hz
RampDecays == {<<3, 1024>>}

\* Levels handed to set_sustain in the ramp runs
RampLevels == {<<1, 2>>, <<3, 4>>}

\* Seconds handed to set_release in the ramp runs: 2 samples at 1024 Hz
RampReleases == {<<1, 512>>}

\* The envelopes configured before the first note of a ramp run.
RampConfigured ==
    { SetRelease(SetSustain(SetDecay(SetAttack(SetSampleRate(EnvNew, F32(sr)),
                                               F32(a)), F32(d)), F32(l)), F32(r)) :
        sr \in RampRates, a \in RampAttacks, d \in RampDecays, l \in RampLevels,
        r \in RampReleases }

EnvObsInit ==
    /\ env_out = <<>>
    /\ env_last = "new"
    /\ rel_obs = "none"
    /\ rel_ticks = 0
    /\ note_offs = 0
    /\ on_obs = NoRetrigger
    /\ atk_ticks = -1
    /\ dec_ticks = -1

\* A setter or note_on ends the observation of a release and of a ramp.
\* note_on on an active envelope begins the observation of a retrigger, on
\* an Idle one that of an attack ramp; a retrigger stays observed across
\* setters up to the call that follows its first tick.
EnvCall(name, e) ==
    /\ env' = e
    /\ env_last' = name
    /\ rel_obs' = "none"
    /\ rel_ticks' = 0
    /\ on_obs' = IF name = "note_on"
                    THEN IF IsActive(env)
                            THEN [from |-> env.stage, level |-> env.level,
                                  ticked |-> FALSE]
                            ELSE NoRetrigger
                    ELSE IF on_obs.ticked THEN NoRetrigger ELSE on_obs
    /\ atk_ticks' = IF name = "note_on" /\ ~IsActive(env) THEN 0 ELSE -1
    /\ dec_ticks' = -1
    /\ UNCHANGED <<env_out, note_offs, mant_bits>>
    /\ UNCHANGED <<qvars, visvars, synvars, oscvars, wasmvars, midivars, plugvars, kbvars>>

Env_SetSampleRate(sample_rate) == EnvCall("set", SetSampleRate(env, F32(sample_rate)))

Env_SetAttack(seconds) == EnvCall("set", SetAttack(env, F32(seconds)))

Env_SetDecay(seconds) == EnvCall("set", SetDecay(env, F32(seconds)))

Env_SetSustain(level) == EnvCall("set", SetSustain(env, F32(level)))

Env_SetRelease(seconds) == EnvCall("set", SetRelease(env, F32(seconds)))

Env_NoteOn == EnvCall("note_on", NoteOn(env))

Env_NoteOff ==
    /\ IsActive(env) => note_offs < MaxNoteOffs
    /\ env' = NoteOff(env)
    /\ env_last' = "note_off"
    /\ note_offs' = IF IsActive(env) THEN note_offs + 1 ELSE note_offs
    /\ CASE env.stage \in {"Attack", "Decay", "Sustain"} ->
                /\ rel_obs' = IF RLt(ZERO, env.level) THEN "clean" ELSE "none"
                /\ rel_ticks' = 0
         [] env.stage = "Release" ->
                /\ rel_obs' = IF rel_obs = "none" THEN "none" ELSE "again"
                /\ UNCHANGED rel_ticks
         [] env.stage = "Idle" ->
                UNCHANGED <<rel_obs, rel_ticks>>
    /\ on_obs' = NoRetrigger
    /\ atk_ticks' = -1
    /\ dec_ticks' = -1
    /\ UNCHANGED <<env_out, mant_bits>>
    /\ UNCHANGED <<qvars, visvars, synvars, oscvars, wasmvars, midivars, plugvars, kbvars>>

Env_Tick ==
    /\ atk_ticks < MaxRampTicks
    /\ dec_ticks < MaxRampTicks
    /\ LET t == Tick(env)
       IN  /\ env' = t.env
           /\ env_out' = t.out
           /\ dec_ticks' = IF env.stage = "Attack" /\ t.env.stage = "Decay" THEN 0
                            ELSE IF dec_ticks >= 0 /\ env.stage = "Decay"
                                    THEN dec_ticks + 1
                                    ELSE dec_ticks
    /\ env_last' = "tick"
    /\ on_obs' = IF on_obs.from # "none" /\ ~on_obs.ticked
                    THEN [on_obs EXCEPT !.ticked = TRUE]
                    ELSE NoRetrigger
    /\ atk_ticks' = IF atk_ticks >= 0 /\ env.stage = "Attack"
                       THEN atk_ticks + 1
                       ELSE atk_ticks
    /\ rel_ticks' = IF rel_obs # "none" /\ env.stage = "Release"
                       THEN rel_ticks + 1 ELSE rel_ticks
    /\ UNCHANGED <<rel_obs, note_offs, mant_bits>>
    /\ UNCHANGED <<qvars, visvars, synvars, oscvars, wasmvars, midivars, plugvars, kbvars>>

-----------------------------------------------------------------------------
(* Specifications.                                                         *)

-----------------------------------------------------------------------------
(* Synth under its public calls (SpecSet, SpecSynth).  Every call is made  *)
(* on synth and on twin; only set_gain and the velocity of note_on may     *)
(* give twin a value of its own.                                           *)

MaxBlock   == 2     \* longest buffer handed to process
MaxSamples == 4     \* samples written over a run

\* A call other than process: the engines after it, and no buffer
SynCall(call, s2, t2) ==
    /\ synth' = s2
    /\ twin' = t2
    /\ syn_call' = call
    /\ out_buf' = <<>> /\ out_twin' = <<>> /\ out_osc' = <<>> /\ out_env' = <<>>
    /\ UNCHANGED <<samples_done, qvars, visvars, envvars, oscvars, wasmvars, midivars, plugvars, kbvars>>

Syn_Prepare(sample_rate) ==
    SynCall(<<"prepare", sample_rate>>,
            Prepare(synth, sample_rate), Prepare(twin, sample_rate))

Syn_SetOscillatorType(osc_type) ==
    SynCall(<<"set_oscillator_type", osc_type>>,
            SynthSetOscillatorType(synth, osc_type),
            SynthSetOscillatorType(twin, osc_type))

Syn_SetGain(gain, twin_gain) ==
    SynCall(<<"set_gain", gain>>,
            SynthSetGain(synth, gain), SynthSetGain(twin, twin_gain))

Syn_SetAttack(seconds) ==
    SynCall(<<"set_attack", seconds>>,
            SynthSetAttack(synth, seconds), SynthSetAttack(twin, seconds))

Syn_SetDecay(seconds) ==
    SynCall(<<"set_decay", seconds>>,
            SynthSetDecay(synth, seconds), SynthSetDecay(twin, seconds))

Syn_SetSustain(level) ==
    SynCall(<<"set_sustain", level>>,
            SynthSetSustain(synth, level), SynthSetSustain(twin, level))

Syn_SetRelease(seconds) ==
    SynCall(<<"set_release", seconds>>,
            SynthSetRelease(synth, seconds), SynthSetRelease(twin, seconds))

Syn_NoteOn(note, velocity, twin_velocity) ==
    SynCall(<<"note_on", note, velocity>>,
            SynthNoteOn(synth, note, velocity),
            SynthNoteOn(twin, note, twin_velocity))

Syn_NoteOff(note) ==
    SynCall(<<"note_off", note>>, SynthNoteOff(synth, note), SynthNoteOff(twin, note))

Syn_Process(n) ==
    /\ samples_done + n <= MaxSamples
    /\ \E r \in {SynthProcess(synth, n)} :
          /\ synth' = r.synth
          /\ out_buf' = r.out
          /\ out_osc' = r.osc
          /\ out_env' = r.env
    /\ \E rt \in {SynthProcess(twin, n)} :
          /\ twin' = rt.synth
          /\ out_twin' = rt.out
    /\ syn_call' = <<"process", n>>
    /\ samples_done' = samples_done + n
    /\ UNCHANGED <<qvars, visvars, envvars, oscvars, wasmvars, midivars, plugvars, kbvars>>

\* Values handed to the setters: NaN, below, at the edge, inside, above
SetterInputs == {NaN, MINUS_ONE, ZERO, HALF, TWO}

-----------------------------------------------------------------------------
(* Oscillator under its public calls (SpecOsc).                            *)

MaxOscTicks == 3    \* ticks between two resets
MaxIndex    == 4    \* waveform indices 0 .. MaxIndex, and the largest integer

\* Sample rates and frequencies: phase_delta is 1/4, 1/2, 1 or 2
OscRates == {<<4, 1>>, <<8, 1>>}
OscFrequencies == {<<2, 1>>, <<8, 1>>}
IndexInputs == (0 .. MaxIndex) \cup {2147483647}

\* An oscillator given a sample rate and a frequency, as its users do
\* before the first tick
OscConfigured == OscSetFrequency(OscSetSampleRate(OscNew, <<8, 1>>), <<2, 1>>)

OscInit ==
    /\ osc = OscConfigured
    /\ osc_before = <<ZERO, ZERO>>
    /\ osc_call = <<"new">>
    /\ osc_out = <<>>
    /\ osc_ticks = 0
    /\ osc_steady = TRUE

OscCall(call, o2) ==
    /\ osc' = o2
    /\ osc_before' = <<osc.phase, osc.tri_integrator>>
    /\ osc_call' = call
    /\ UNCHANGED <<qvars, visvars, envvars, synvars, wasmvars, midivars, plugvars, kbvars>>

Osc_SetSampleRate(sample_rate) ==
    /\ OscCall(<<"set_sample_rate", sample_rate>>, OscSetSampleRate(osc, sample_rate))
    /\ osc_steady' = FALSE
    /\ UNCHANGED <<osc_out, osc_ticks>>

Osc_SetFrequency(frequency) ==
    /\ OscCall(<<"set_frequency", frequency>>, OscSetFrequency(osc, frequency))
    /\ osc_steady' = FALSE
    /\ UNCHANGED <<osc_out, osc_ticks>>

\* set_type with the variant from_index gives for the index
Osc_SetType(index) ==
    /\ OscCall(<<"set_type", index>>, OscSetType(osc, FromIndex(index)))
    /\ UNCHANGED <<osc_out, osc_ticks, osc_steady>>

Osc_Reset ==
    /\ OscCall(<<"reset">>, OscReset(osc))
    /\ osc_ticks' = 0
    /\ osc_steady' = TRUE
    /\ UNCHANGED osc_out

Osc_Tick ==
    /\ osc_ticks < MaxOscTicks
    /\ \E t \in {OscTick(osc)} :
          /\ OscCall(<<"tick">>, t.osc)
          /\ osc_out' = t.out
    /\ osc_ticks' = osc_ticks + 1
    /\ UNCHANGED osc_steady

-----------------------------------------------------------------------------
(* WasmSynth (web-worklet/src/lib.rs).                                     *)

\* RENDER_QUANTUM (128 in the source)
RENDER_QUANTUM == 2

\* VIS_BUFFER_SIZE of web-worklet/src/lib.rs (2048 in the source)
WASM_VIS_BUFFER_SIZE == 4

\* process_audio calls of a run
MaxQuanta == 5

\* WasmSynth::new
WasmNew ==
    [synth |-> SynthNew,
     audio_buf |-> [i \in 1 .. RENDER_QUANTUM |-> ZERO],
     vis_buffer |-> [i \in 0 .. WASM_VIS_BUFFER_SIZE - 1 |-> ZERO],
     vis_write_pos |-> 0,
     vis_ready |-> FALSE]

WasmPrepare(w, sample_rate) == [w EXCEPT !.synth = Prepare(@, sample_rate)]

WasmNoteOn(w, note) == [w EXCEPT !.synth = SynthNoteOn(@, note, <<4, 5>>)]

WasmNoteOff(w, note) == [w EXCEPT !.synth = SynthNoteOff(@, note)]

WasmSetAttack(w, v) == [w EXCEPT !.synth = SynthSetAttack(@, v)]

WasmSetDecay(w, v) == [w EXCEPT !.synth = SynthSetDecay(@, v)]

WasmSetSustain(w, v) == [w EXCEPT !.synth = SynthSetSustain(@, v)]

WasmSetRelease(w, v) == [w EXCEPT !.synth = SynthSetRelease(@, v)]

StoreVis_NoWrap(w, sample) ==
    [w EXCEPT !.vis_buffer[w.vis_write_pos] = sample,
              !.vis_write_pos = IF @ + 1 >= WASM_VIS_BUFFER_SIZE THEN @ ELSE @ + 1,
              !.vis_ready = (@ \/ w.vis_write_pos + 1 >= WASM_VIS_BUFFER_SIZE)]

\* One pass of the loop of process_audio: the sample is stored at
\* vis_write_pos, which then advances and at VIS_BUFFER_SIZE goes back to 0
\* with vis_ready set
StoreVis(w, sample) ==
    [w EXCEPT !.vis_buffer[w.vis_write_pos] = sample,
              !.vis_write_pos = IF @ + 1 >= WASM_VIS_BUFFER_SIZE THEN 0 ELSE @ + 1,
              !.vis_ready = (@ \/ w.vis_write_pos + 1 >= WASM_VIS_BUFFER_SIZE)]

\* The loop of process_audio over audio_buf from its i-th sample on
RECURSIVE Accumulate(_, _)
Accumulate(w, i) ==
    IF i > Len(w.audio_buf) THEN w
    ELSE Accumulate(StoreVis(w, w.audio_buf[i]), i + 1)

\* synth.process(&mut audio_buf): the engine after it and the buffer filled
Rendered(w, r) == [w EXCEPT !.synth = r.synth, !.audio_buf = r.out]

\* WasmSynth::process_audio: the object after the call and the Vec returned
Returned(w) == [wasm |-> w, ret |-> w.audio_buf]

WasmProcessAudio(w) ==
    Returned(Accumulate(Rendered(w, SynthProcess(w.synth, Len(w.audio_buf))), 1))

WasmVisReady_NoClear(w) == [wasm |-> w, ret |-> w.vis_ready]

\* WasmSynth::vis_ready: the flag is returned and cleared
WasmVisReady(w) == [wasm |-> [w EXCEPT !.vis_ready = FALSE], ret |-> w.vis_ready]

-----------------------------------------------------------------------------
(* WasmSynth under its calls (SpecWasm).                                   *)

WasmObsInit ==
    /\ wasm_call = "new"
    /\ wasm_ret = <<>>
    /\ wasm_calls = 0
    /\ wasm_prev_pos = 0
    /\ wrapped_since = FALSE
    /\ wrapped_obs = FALSE

WasmInit ==
    /\ wasm = WasmNew
    /\ WasmObsInit

MidiInit ==
    /\ midi_note = -1
    /\ midi_freq = <<>>

Wasm_NoteOn(note) ==
    /\ wasm' = WasmNoteOn(wasm, note)
    /\ wasm_call' = "note_on"
    /\ UNCHANGED <<wasm_ret, wasm_calls, wasm_prev_pos, wrapped_since, wrapped_obs>>
    /\ UNCHANGED <<qvars, visvars, envvars, synvars, oscvars, midivars, plugvars, kbvars>>

Wasm_NoteOff(note) ==
    /\ wasm' = WasmNoteOff(wasm, note)
    /\ wasm_call' = "note_off"
    /\ UNCHANGED <<wasm_ret, wasm_calls, wasm_prev_pos, wrapped_since, wrapped_obs>>
    /\ UNCHANGED <<qvars, visvars, envvars, synvars, oscvars, midivars, plugvars, kbvars>>

Wasm_ProcessAudio ==
    /\ wasm_calls < MaxQuanta
    /\ \E r \in {WasmProcessAudio(wasm)} :
          /\ wasm' = r.wasm
          /\ wasm_ret' = r.ret
    /\ wasm_call' = "process_audio"
    /\ wasm_calls' = wasm_calls + 1
    /\ wasm_prev_pos' = wasm.vis_write_pos
    /\ wrapped_since' =
          (wrapped_since \/ wasm.vis_write_pos + RENDER_QUANTUM >= WASM_VIS_BUFFER_SIZE)
    /\ UNCHANGED wrapped_obs
    /\ UNCHANGED <<qvars, visvars, envvars, synvars, oscvars, midivars, plugvars, kbvars>>

Wasm_VisReady ==
    /\ \E r \in {WasmVisReady(wasm)} :
          /\ wasm' = r.wasm
          /\ wasm_ret' = r.ret
    /\ wasm_call' = "vis_ready"
    /\ wrapped_obs' = wrapped_since
    /\ wrapped_since' = FALSE
    /\ UNCHANGED <<wasm_calls, wasm_prev_pos>>
    /\ UNCHANGED <<qvars, visvars, envvars, synvars, oscvars, midivars, plugvars, kbvars>>

-----------------------------------------------------------------------------
(* PianoKeyboard (synth-ui/src/keyboard.rs).  A frame is one call of       *)
(* paint_and_interact on a PianoKeyboard the caller has built for it; the  *)
(* Option<u8> behind mouse_note is the caller's and outlives the frame.    *)

\* FIRST_NOTE: C3
FIRST_NOTE == 48

\* Upper end of the clamp of effective_first_note
LAST_FIRST_NOTE == 103

\* Semitones compute_layout walks through: 0u8..25
LAYOUT_SEMITONES == 25

\* KEY_MAP: the semitone offset of each mapped key, in the order of the table
KEY_MAP == [i \in 1 .. 15 |-> i - 1]

\* The values of an i8
I8 == -128 .. 127

\* a + b in u8 arithmetic as a release build computes it
U8Add(a, b) == (a + b) % 256

\* i16::clamp
Clamp(x, lo, hi) == IF x < lo THEN lo ELSE IF x > hi THEN hi ELSE x

EffectiveFirstNote_ToTop(octave_offset) ==
    Clamp(FIRST_NOTE + octave_offset * 12, 0, 127) % 256

\* effective_first_note:
\* (FIRST_NOTE as i16 + octave_offset as i16 * 12).clamp(0, 103) as u8
EffectiveFirstNote(octave_offset) ==
    Clamp(FIRST_NOTE + octave_offset * 12, 0, LAST_FIRST_NOTE) % 256

\* compute_layout: the notes of the keys, in the order they are pushed
ComputeLayout(first_note) ==
    [i \in 1 .. LAYOUT_SEMITONES |-> U8Add(first_note, i - 1)]

NoteOnEvent(n) == <<"NoteOn", n>>
NoteOffEvent(n) == <<"NoteOff", n>>

MouseDown_KeepOld(m, note) ==
    IF m # Some(note)
       THEN [mouse_note |-> Some(note), events |-> <<NoteOnEvent(note)>>]
       ELSE [mouse_note |-> m, events |-> <<>>]

\* The pointer is down on the key of a note: unless it is the note held,
\* the note held is released and this one is held and started
MouseDown(m, note) ==
    IF m # Some(note)
       THEN [mouse_note |-> Some(note),
             events |-> (IF m # None THEN <<NoteOffEvent(m[1])>> ELSE <<>>)
                            \o <<NoteOnEvent(note)>>]
       ELSE [mouse_note |-> m, events |-> <<>>]

\* The pointer is not down on the widget: the note held is released
MouseUp(m) ==
    IF m # None
       THEN [mouse_note |-> None, events |-> <<NoteOffEvent(m[1])>>]
       ELSE [mouse_note |-> m, events |-> <<>>]

\* The mouse handling of paint_and_interact.  clicked is the index in keys
\* of the key whose rect contains the pointer, 0 when there is none or the
\* pointer has no position
MouseInteract(m, keys, down, clicked) ==
    IF down
       THEN IF clicked # 0 THEN MouseDown(m, keys[clicked])
                           ELSE [mouse_note |-> m, events |-> <<>>]
       ELSE MouseUp(m)

\* The computer-keyboard handling for one egui::Event::Key: key is the index
\* of the key in KEY_MAP, 0 for a key that is not in it
KeyInteract(first_note, ev) ==
    IF ev = <<>> \/ ev.repeat \/ ev.key = 0 THEN <<>>
    ELSE IF ev.pressed
            THEN <<NoteOnEvent(U8Add(first_note, KEY_MAP[ev.key]))>>
            ELSE <<NoteOffEvent(U8Add(first_note, KEY_MAP[ev.key]))>>

\* Frames of a run
MaxKbFrames == 3

-----------------------------------------------------------------------------
(* SimpleSynth (plugin/src/lib.rs): the engine, the queue of the notes of  *)
(* the on-screen keyboard and the ring of the scope, as one value; process *)
(* is one call of the host on the audio thread.                            *)

\* Samples of mono_buf (512 in the source)
MONO_BUF_LEN == 2

\* NoteQueue::new
NoteQueueNew ==
    [slots |-> [i \in Slots |-> EMPTY_SLOT], write_head |-> 0, read_head |-> 0]

\* VisBuffer::new
VisBufferNew ==
    [buffers |-> [b \in 0 .. 1 |-> [i \in BufIdx |-> ZERO]],
     write_pos |-> 0, front |-> 0]

\* SimpleSynth::default
PlugNew ==
    [synth |-> SynthNew, vis_buffer |-> VisBufferNew, note_queue |-> NoteQueueNew]

\* Plugin::initialize
PlugInitialize(p, sample_rate) == [p EXCEPT !.synth = Prepare(@, sample_rate)]

\* NoteQueue::push_raw on a queue value
QueuePushRaw(q, value) ==
    LET head == q.write_head
        next == NextSlot(head)
    IN  IF IsFull(next, q.read_head)
           THEN [queue |-> q, ret |-> FALSE]
           ELSE [queue |-> [q EXCEPT !.slots[head] = value, !.write_head = next],
                 ret   |-> TRUE]

\* VisBuffer::push on a ring value
VisPush(vb, sample) ==
    LET back     == BackOf(vb.front)
        pos      == vb.write_pos
        next_pos == NextPos(pos)
    IN  [buffers   |-> [vb.buffers EXCEPT ![back][pos] = sample],
         write_pos |-> next_pos,
         front     |-> IF Wrapped(next_pos) THEN back ELSE vb.front]

\* What process did, in the order it did it
Entry(kind, idx, val) == [kind |-> kind, idx |-> idx, val |-> val]

\* "Apply parameter changes": the six setters with the values of the params
ApplyParams(s, params) ==
    SynthSetRelease(SynthSetSustain(SynthSetDecay(SynthSetAttack(SynthSetGain(
        SynthSetOscillatorType(s, FromIndex(params.osc_type)),
        params.gain), params.attack), params.decay), params.sustain),
        params.release)

\* The callback process gives to drain
QueuedApplied(s, is_on, note) ==
    IF is_on THEN SynthNoteOn(s, note, <<4, 5>>) ELSE SynthNoteOff(s, note)

Drained_NoCallback(st, ev) ==
    [st EXCEPT !.note_queue.read_head = TailAfter(@)]

\* One pass of the loop of drain, ev being the decoded slot at read_head
Drained(st, ev) ==
    [st EXCEPT !.synth = QueuedApplied(@, ev[1], ev[2]),
               !.note_queue.read_head = TailAfter(@),
               !.log = Append(@, Entry("queue", ev[2], ev[1]))]

\* note_queue.drain with that callback
RECURSIVE DrainQueue(_)
DrainQueue(st) ==
    IF st.note_queue.read_head = st.note_queue.write_head THEN st
    ELSE DrainQueue(Drained(st, Decode(st.note_queue.slots[st.note_queue.read_head])))

\* context.next_event(): the next event of the host's list, if there is one
Fetch(st, events) ==
    IF st.taken < Len(events)
       THEN [st EXCEPT !.taken = @ + 1, !.next_event = Some(events[st.taken + 1])]
       ELSE [st EXCEPT !.next_event = None]

\* match event { NoteOn => note_on, NoteOff => note_off, _ => {} }
HostApplied(s, event) ==
    CASE event.kind = "NoteOn"  -> SynthNoteOn(s, event.note, event.velocity)
      [] event.kind = "NoteOff" -> SynthNoteOff(s, event.note)
      [] OTHER                  -> s

\* The branch timing <= block_start: the event is applied, the next fetched
Consumed(st, events) ==
    Fetch([st EXCEPT !.synth = HostApplied(@, st.next_event[1]),
                     !.log = Append(@, Entry("host", st.taken, st.next_event[1]))],
          events)

BlockEnd_Whole(next_event, num_samples) == num_samples

\* block_end: timing.min(num_samples), num_samples when there is no event
BlockEnd(next_event, num_samples) ==
    IF next_event # None THEN Min(next_event[1].timing, num_samples)
    ELSE num_samples

\* for &s in &mono_buf[..chunk] { vis_buffer.push(s) }
RECURSIVE PushLoop(_, _, _)
PushLoop(st, samples, i) ==
    IF i > Len(samples) THEN st
    ELSE PushLoop([st EXCEPT !.vis_buffer = VisPush(@, samples[i]),
                             !.log = Append(@, Entry("vis", 0, samples[i]))],
                  samples, i + 1)

SampleIdx_NoRendered(block_start, rendered, i) == block_start + i

\* let sample_idx = block_start + rendered + i
SampleIdx(block_start, rendered, i) == block_start + rendered + i

\* for i in 0..chunk: both channels get mono_buf[i] at sample_idx
RECURSIVE CopyLoop(_, _, _, _)
CopyLoop(st, rendered, samples, i) ==
    IF i >= Len(samples) THEN st
    ELSE \* slot of the sequences out0, out1 for sample_idx
         LET at == SampleIdx(st.block_start, rendered, i) + 1
         IN  CopyLoop([st EXCEPT !.out0[at] = samples[i + 1],
                                 !.out1[at] = samples[i + 1],
                                 !.log = Append(@, Entry("write", at - 1,
                                                         samples[i + 1]))],
                      rendered, samples, i + 1)

\* One pass of while rendered < block_len, r being what synth.process gave
\* for mono_buf[..chunk]
Chunk(st, rendered, r) ==
    CopyLoop(PushLoop([st EXCEPT !.synth = r.synth,
                                 !.log = Append(@, Entry("process", Len(r.out),
                                                         <<>>))],
                      r.out, 1),
             rendered, r.out, 0)

RECURSIVE RenderLoop(_, _, _)
RenderLoop(st, block_len, rendered) ==
    IF rendered < block_len
       THEN RenderLoop(Chunk(st, rendered,
                             SynthProcess(st.synth,
                                          Min(block_len - rendered, MONO_BUF_LEN))),
                       block_len,
                       rendered + Min(block_len - rendered, MONO_BUF_LEN))
       ELSE st

\* "Render audio for this block" up to block_end, then block_start = block_end
RenderedBlock(st, block_end) ==
    [RenderLoop([st EXCEPT !.log = Append(@, Entry("block", st.block_start,
                                                   block_end))],
                block_end - st.block_start, 0)
        EXCEPT !.block_start = block_end]

\* One pass of while block_start < num_samples
Iteration(st, events, num_samples) ==
    IF st.next_event # None /\ st.next_event[1].timing <= st.block_start
       THEN Consumed(st, events)
       ELSE RenderedBlock(st, BlockEnd(st.next_event, num_samples))

RECURSIVE BlockLoop(_, _, _)
BlockLoop(st, events, num_samples) ==
    IF st.block_start < num_samples
       THEN BlockLoop(Iteration(st, events, num_samples), events, num_samples)
       ELSE st

\* An output buffer of the host before process has written it
Unwritten(num_samples) == [i \in 1 .. num_samples |-> <<>>]

\* Plugin::process on a buffer of num_samples frames with the events of the
\* host: the plugin with what the call works on
Entered(p, num_samples) ==
    [synth |-> p.synth, vis_buffer |-> p.vis_buffer, note_queue |-> p.note_queue,
     out0 |-> Unwritten(num_samples), out1 |-> Unwritten(num_samples),
     log |-> <<>>, taken |-> 0, next_event |-> None, block_start |-> 0]

Process(p, params, events, num_samples) ==
    BlockLoop(
        Fetch(DrainQueue([Entered(p, num_samples)
                             EXCEPT !.synth = ApplyParams(@, params)]),
              events),
        events, num_samples)

PlugInit ==
    /\ plug = PlugNew
    /\ plug_call = <<"new">>
    /\ plug_in = <<>>
    /\ plug_res = <<>>
    /\ plug_before = <<>>
    /\ plug_pending = <<>>
    /\ plug_calls = 0

\* process calls of a run
MaxPlugCalls == 1

\* Longest buffer of the host
MaxFrames == 3

\* push_note_on / push_note_off of the editor
Plug_Push(is_on, note, value) ==
    /\ plug_calls < MaxPlugCalls
    /\ \E r \in {QueuePushRaw(plug.note_queue, value)} :
          /\ plug' = [plug EXCEPT !.note_queue = r.queue]
          /\ plug_call' = <<"push", r.ret>>
          /\ plug_pending' = IF r.ret THEN Append(plug_pending, <<is_on, note>>)
                                      ELSE plug_pending
    /\ UNCHANGED <<plug_in, plug_res, plug_before, plug_calls>>
    /\ UNCHANGED <<qvars, visvars, envvars, synvars, oscvars, wasmvars, midivars,
                   kbvars>>

Plug_PushNoteOn(note) == Plug_Push(TRUE, note, EncodeOn(note))

Plug_PushNoteOff(note) == Plug_Push(FALSE, note, EncodeOff(note))

\* process(buffer, _, context)
Plug_Process(params, events, num_samples) ==
    /\ plug_calls < MaxPlugCalls
    /\ \E r \in {Process(plug, params, events, num_samples)} :
          /\ plug' = [synth |-> r.synth, vis_buffer |-> r.vis_buffer,
                      note_queue |-> r.note_queue]
          /\ plug_res' = [out0 |-> r.out0, out1 |-> r.out1, log |-> r.log,
                          taken |-> r.taken]
    /\ plug_call' = <<"process">>
    /\ plug_in' = [num_samples |-> num_samples, events |-> events]
    /\ plug_before' = plug_pending
    /\ plug_pending' = <<>>
    /\ plug_calls' = plug_calls + 1
    /\ UNCHANGED <<qvars, visvars, envvars, synvars, oscvars, wasmvars, midivars,
                   kbvars>>

KbInit ==
    /\ mouse_note = None
    /\ kb_in = <<>>
    /\ kb_prev = None
    /\ kb_events = <<>>
    /\ kb_layout = <<>>
    /\ mouse_log = <<>>
    /\ kb_frames = 0

\* paint_and_interact on a PianoKeyboard built with octave_offset
Kb_Frame(octave_offset, down, clicked, key_event) ==
    /\ kb_frames < MaxKbFrames
    /\ \E keys \in {ComputeLayout(EffectiveFirstNote(octave_offset))} :
         \E r \in {MouseInteract(mouse_note, keys, down, clicked)} :
            /\ mouse_note' = r.mouse_note
            /\ kb_events' = r.events
                              \o KeyInteract(EffectiveFirstNote(octave_offset), key_event)
            /\ mouse_log' = mouse_log \o r.events
            /\ kb_layout' = keys
    /\ kb_in' = [octave_offset |-> octave_offset, down |-> down,
                 clicked |-> clicked, key_event |-> key_event]
    /\ kb_prev' = mouse_note
    /\ kb_frames' = kb_frames + 1
    /\ UNCHANGED <<qvars, visvars, envvars, synvars, oscvars, wasmvars, midivars,
                   plugvars>>

\* octave_offset of the frames with the mouse
KbOctaves == {0, 1}

\* Keys the pointer is on in those frames: none, the first, the last
KbClicks == {0, 1, LAYOUT_SEMITONES}

\* Key events of a frame: none, a press of the first mapped key, a
\* release of the last, a repeat, a key that is not mapped
KbKeyEvents ==
    {<<>>,
     [key |-> 1, pressed |-> TRUE, repeat |-> FALSE],
     [key |-> 15, pressed |-> FALSE, repeat |-> FALSE],
     [key |-> 1, pressed |-> TRUE, repeat |-> TRUE],
     [key |-> 0, pressed |-> TRUE, repeat |-> FALSE]}

NextKb ==
    \E o \in KbOctaves, down \in BOOLEAN, c \in KbClicks :
        \E k \in KbKeyEvents : Kb_Frame(o, down, c, k)

NextOct ==
    \E o \in I8 :
        \E k \in {<<>>, [key |-> 15, pressed |-> TRUE, repeat |-> FALSE]} :
            Kb_Frame(o, FALSE, 0, k)

SynthObsInit ==
    /\ syn_call = <<"new">>
    /\ out_buf = <<>>
    /\ out_twin = <<>>
    /\ out_osc = <<>>
    /\ out_env = <<>>
    /\ samples_done = 0

\* Two engines fresh from Synth::new
SynthInit ==
    /\ synth = SynthNew
    /\ twin = SynthNew
    /\ SynthObsInit

Init ==
    /\ QueueInit
    /\ drain_obs = FALSE
    /\ VisInit
    /\ mant_bits = 0
    /\ env = EnvNew
    /\ EnvObsInit
    /\ SynthInit
    /\ OscInit
    /\ WasmInit
    /\ MidiInit
    /\ PlugInit
    /\ KbInit

\* The queue with the callbacks of each drain counted
InitDrain ==
    /\ QueueInit
    /\ drain_obs = TRUE
    /\ VisInit
    /\ mant_bits = 0
    /\ env = EnvNew
    /\ EnvObsInit
    /\ SynthInit
    /\ OscInit
    /\ WasmInit
    /\ MidiInit
    /\ PlugInit
    /\ KbInit

InitEnv ==
    /\ QueueInit
    /\ drain_obs = FALSE
    /\ VisInit
    /\ mant_bits = 0
    /\ env \in EnvConfigured
    /\ EnvObsInit
    /\ SynthInit
    /\ OscInit
    /\ WasmInit
    /\ MidiInit
    /\ PlugInit
    /\ KbInit

\* Levels handed to set_sustain in the release runs: -0.5 (stored as 0) and
\* 0.5
RelLevels == {<<-1, 2>>, <<1, 2>>}

\* The envelopes of the release runs: 2 samples of attack, decay and release
\* at 1000 Hz, and a sustain level of 0 or 0.5
RelConfigured ==
    { SetRelease(SetSustain(SetDecay(SetAttack(SetSampleRate(EnvNew, <<1000, 1>>),
                                               <<2, 1000>>), <<2, 1000>>), l), <<2, 1000>>) :
        l \in RelLevels }

InitRel ==
    /\ QueueInit
    /\ drain_obs = FALSE
    /\ VisInit
    /\ mant_bits = 0
    /\ env \in RelConfigured
    /\ EnvObsInit
    /\ SynthInit
    /\ OscInit
    /\ WasmInit
    /\ MidiInit
    /\ PlugInit
    /\ KbInit

InitF32 ==
    /\ QueueInit
    /\ drain_obs = FALSE
    /\ VisInit
    /\ mant_bits \in {0, MantissaBits}
    /\ env \in RampConfigured
    /\ EnvObsInit
    /\ SynthInit
    /\ OscInit
    /\ WasmInit
    /\ MidiInit
    /\ PlugInit
    /\ KbInit

NextSeq ==
    \/ \E n \in Notes : SeqPushNoteOn(n)
    \/ \E n \in Notes : SeqPushNoteOff(n)
    \/ SeqDrain

NextConc ==
    \/ \E n \in Notes : P_PushNoteOn(n)
    \/ \E n \in Notes : P_PushNoteOff(n)
    \/ P_LoadHead
    \/ P_Check
    \/ P_StoreSlot
    \/ P_StoreHead
    \/ C_Drain
    \/ C_LoadTail
    \/ C_Check
    \/ C_LoadSlot
    \/ C_Callback
    \/ C_StoreTail

\* One producer pushing one kind of event, and one consumer
NextDrain ==
    \/ P_PushNoteOn(60)
    \/ P_LoadHead
    \/ P_Check
    \/ P_StoreSlot
    \/ P_StoreHead
    \/ C_Drain
    \/ C_LoadTail
    \/ C_Check
    \/ C_LoadSlot
    \/ C_Callback
    \/ C_StoreTail

NextVis ==
    \/ \E x \in Samples : W_Push(x)
    \/ W_LoadFront
    \/ W_LoadPos
    \/ W_StoreSample
    \/ W_StorePos
    \/ W_StoreFront
    \/ R_ReadFront
    \/ R_ReadElem

NextEnv ==
    \/ \E sr \in SampleRates : Env_SetSampleRate(sr)
    \/ \E t \in TimeInputs : Env_SetAttack(t)
    \/ \E t \in TimeInputs : Env_SetDecay(t)
    \/ \E l \in LevelInputs : Env_SetSustain(l)
    \/ \E t \in TimeInputs : Env_SetRelease(t)
    \/ Env_NoteOn
    \/ Env_NoteOff
    \/ Env_Tick

\* The calls of a release run: the setters that write release_rate or the
\* sustain level, the two note calls and tick
NextRel ==
    \/ Env_SetSampleRate(<<1000, 1>>)
    \/ \E l \in RelLevels : Env_SetSustain(l)
    \/ Env_SetRelease(<<2, 1000>>)
    \/ Env_NoteOn
    \/ Env_NoteOff
    \/ Env_Tick

NextF32 ==
    \/ \E l \in RampLevels : Env_SetSustain(l)
    \/ Env_NoteOn
    \/ Env_NoteOff
    \/ Env_Tick

\* The engines of SpecSynth: prepared at a low rate and given short stage
\* times, so that a note passes through every stage within a few samples
\* and the phase of the two notes stays on quarter points of the period
SynRate  == <<880, 1>>
SynNotes == {57, 69}
SynGains == {ZERO, HALF}
SynVelocities == {<<4, 5>>, ONE}

SynthConfigured ==
    SynthSetRelease(SynthSetSustain(SynthSetDecay(SynthSetAttack(
        Prepare(SynthNew, SynRate), <<1, 440>>), <<1, 880>>), HALF), <<1, 880>>)

\* A WasmSynth prepared and configured as the engines of SpecSynth are
WasmConfigured ==
    WasmSetRelease(WasmSetSustain(WasmSetDecay(WasmSetAttack(
        WasmPrepare(WasmNew, SynRate), <<1, 440>>), <<1, 880>>), HALF), <<1, 880>>)

InitWasm ==
    /\ QueueInit
    /\ drain_obs = FALSE
    /\ VisInit
    /\ mant_bits = 0
    /\ env = EnvNew
    /\ EnvObsInit
    /\ SynthInit
    /\ OscInit
    /\ wasm = WasmConfigured
    /\ WasmObsInit
    /\ MidiInit
    /\ PlugInit
    /\ KbInit

InitSynth ==
    /\ QueueInit
    /\ drain_obs = FALSE
    /\ VisInit
    /\ mant_bits = 0
    /\ env = EnvNew
    /\ EnvObsInit
    /\ synth = SynthConfigured
    /\ twin = synth
    /\ SynthObsInit
    /\ OscInit
    /\ WasmInit
    /\ MidiInit
    /\ PlugInit
    /\ KbInit

\* The values of the params: sine, gain 0.8, attack and release of two
\* samples at SynRate, decay of one, sustain 0.5
PlugParams ==
    [osc_type |-> 0, gain |-> <<4, 5>>, attack |-> <<1, 440>>,
     decay |-> <<1, 880>>, sustain |-> HALF, release |-> <<1, 440>>]

\* A note event of the host
HostEvent(kind, note, timing) ==
    [kind |-> kind, note |-> note, velocity |-> ONE, timing |-> timing]

\* Event lists a host hands to one process call: none; a note at the start;
\* a note started and stopped inside the buffer; the same out of order; two
\* events at one sample; an event for the frame after the last; an event
\* that is no note before a note
HostLists ==
    {<<>>,
     <<HostEvent("NoteOn", 57, 0)>>,
     <<HostEvent("NoteOn", 57, 1), HostEvent("NoteOff", 57, 2)>>,
     <<HostEvent("NoteOn", 57, 2), HostEvent("NoteOff", 57, 1)>>,
     <<HostEvent("NoteOn", 69, 1), HostEvent("NoteOn", 57, 1)>>,
     <<HostEvent("NoteOff", 57, MaxFrames)>>,
     <<HostEvent("Other", 0, 0), HostEvent("NoteOn", 57, 0)>>}

\* Notes of the on-screen keyboard
PlugNotes == {57}

\* Buffer lengths of the host: empty, and the two longest
FrameCounts == {0, MaxFrames - 1, MaxFrames}

\* The plugin after initialize at SynRate
InitPlug ==
    /\ QueueInit
    /\ drain_obs = FALSE
    /\ VisInit
    /\ mant_bits = 0
    /\ env = EnvNew
    /\ EnvObsInit
    /\ SynthInit
    /\ OscInit
    /\ WasmInit
    /\ MidiInit
    /\ plug = PlugInitialize(PlugNew, SynRate)
    /\ plug_call = <<"initialize">>
    /\ plug_in = <<>>
    /\ plug_res = <<>>
    /\ plug_before = <<>>
    /\ plug_pending = <<>>
    /\ plug_calls = 0
    /\ KbInit

NextPlug ==
    \/ \E n \in PlugNotes : Plug_PushNoteOn(n)
    \/ \E n \in PlugNotes : Plug_PushNoteOff(n)
    \/ \E events \in HostLists, n \in FrameCounts :
          Plug_Process(PlugParams, events, n)

NextSynth ==
    \/ Syn_Prepare(SynRate)
    \/ \E t \in OscillatorTypes : Syn_SetOscillatorType(t)
    \/ \E g, g2 \in SynGains : g # g2 /\ Syn_SetGain(g, g2)
    \/ \E n \in SynNotes : \E v, v2 \in SynVelocities :
          v # v2 /\ Syn_NoteOn(n, v, v2)
    \/ \E n \in SynNotes : Syn_NoteOff(n)
    \/ \E n \in 0 .. MaxBlock : Syn_Process(n)

NextOsc ==
    \/ \E sr \in OscRates : Osc_SetSampleRate(sr)
    \/ \E f \in OscFrequencies : Osc_SetFrequency(f)
    \/ \E i \in IndexInputs : Osc_SetType(i)
    \/ Osc_Reset
    \/ Osc_Tick

\* midi_note_to_freq(note) for a note of 0 ..= MaxNote
MaxNote == 127

Midi_NoteToFreq(note) ==
    /\ \E f \in MidiNoteToFreqs(note) : midi_freq' = f
    /\ midi_note' = note
    /\ UNCHANGED <<qvars, visvars, envvars, synvars, oscvars, wasmvars, plugvars, kbvars>>

NextMidi == \E n \in 0 .. MaxNote : Midi_NoteToFreq(n)

NextWasm ==
    \/ \E n \in SynNotes : Wasm_NoteOn(n)
    \/ \E n \in SynNotes : Wasm_NoteOff(n)
    \/ Wasm_ProcessAudio
    \/ Wasm_VisReady

NextSet ==
    \/ \E v \in SetterInputs : Syn_SetGain(v, v)
    \/ \E v \in SetterInputs : Syn_SetAttack(v)
    \/ \E v \in SetterInputs : Syn_SetDecay(v)
    \/ \E v \in SetterInputs : Syn_SetSustain(v)
    \/ \E v \in SetterInputs : Syn_SetRelease(v)

SpecSeq  == Init /\ [][NextSeq]_vars
SpecConc == Init /\ [][NextConc]_vars
SpecDrain == InitDrain /\ [][NextDrain]_vars
SpecVis  == Init /\ [][NextVis]_vars
SpecEnv  == InitEnv /\ [][NextEnv]_vars
SpecF32  == InitF32 /\ [][NextF32]_vars
SpecSet  == Init /\ [][NextSet]_vars
SpecSynth == InitSynth /\ [][NextSynth]_vars
SpecOsc  == Init /\ [][NextOsc]_vars
SpecWasm == InitWasm /\ [][NextWasm]_vars
SpecMidi == Init /\ [][NextMidi]_vars
SpecEnc  == Init /\ [][NextEnc]_vars
SpecPlug == InitPlug /\ [][NextPlug]_vars
SpecKb   == Init /\ [][NextKb]_vars
SpecOct  == Init /\ [][NextOct]_vars

\* Release runs: the audio callback goes on calling process, which ticks an
\* active envelope once per sample, so tick is not postponed for ever
SpecRel == InitRel /\ [][NextRel]_vars /\ WF_vars(Env_Tick)

-----------------------------------------------------------------------------
(* NoteQueue properties.                                                   *)

\* The events held in the ring from index from up to, not including, to.
RECURSIVE RingEvents(_, _)
RingEvents(from, to) ==
    IF from = to THEN <<>>
                 ELSE <<Decode(slots[from])>> \o RingEvents(NextSlot(from), to)

Queued == (write_head + NOTE_QUEUE_SIZE - read_head) % NOTE_QUEUE_SIZE

\* C1: with push and drain calls not overlapping, the pairs handed to the
\* drain callback are always a prefix of the accepted events, after every
\* drain they are exactly the accepted events in push order (nothing lost,
\* duplicated or reordered, also across wrap-around), and a drain of an
\* empty queue invokes the callback zero times.
C1_SeqFifo ==
    /\ [](IsPrefix(delivered, pushed) /\ (q_last = "drain" => delivered = pushed))
    /\ [][delivered' # delivered => read_head # write_head]_vars

\* C1 witness: a drain has finished after more events went through the ring
\* than it has slots, so the indices wrapped.
C1_Witness ==
    /\ q_last = "drain"
    /\ Len(delivered) > NOTE_QUEUE_SIZE
    /\ write_head < NOTE_QUEUE_SIZE - 1

\* C2: with one producer and one consumer interleaved at every atomic
\* access, every accepted event is handed to the callback exactly once and
\* in push order (at each instant the accepted events are the delivered ones
\* followed by the ones still in the ring), and the producer never stores
\* into a slot whose previous event drain has not loaded yet.
C2_ConcExactlyOnce ==
    /\ IsPrefix(delivered, pushed)
    /\ ~clobbered
    /\ LET done == IF c_pc = "store_tail"
                      THEN SubSeq(delivered, 1, Len(delivered) - 1)
                      ELSE delivered
       IN  pushed = done \o RingEvents(read_head, write_head)

\* C2 witness: the consumer has delivered a full ring of events and not yet
\* released the last slot while the producer is publishing the next event.
C2_Witness ==
    /\ Len(delivered) = NOTE_QUEUE_SIZE
    /\ c_pc = "store_tail"
    /\ p_pc = "store_head"

\* C3: a push returns true exactly when fewer than NOTE_QUEUE_SIZE-1 events
\* are queued, that is when (write_head+1) mod N differs from read_head; a
\* push that returns false leaves write_head, read_head and every slot (and
\* so the queued events) unchanged.
C3_PushFull ==
    [][q_last' = "push" =>
          /\ push_ret' = (Queued < NOTE_QUEUE_SIZE - 1)
          /\ push_ret' = ((write_head + 1) % NOTE_QUEUE_SIZE # read_head)
          /\ (push_ret' = FALSE =>
                 /\ UNCHANGED <<slots, write_head, read_head>>
                 /\ RingEvents(read_head', write_head')
                       = RingEvents(read_head, write_head))
          /\ (push_ret' = TRUE => Queued' = Queued + 1)]_vars

\* C3 witness: a push was rejected by a ring holding NOTE_QUEUE_SIZE-1
\* events whose write index had wrapped behind the read index.
C3_Witness ==
    /\ q_last = "push"
    /\ push_ret = FALSE
    /\ Queued = NOTE_QUEUE_SIZE - 1
    /\ write_head < read_head

-----------------------------------------------------------------------------
(* VisBuffer properties.                                                   *)

\* The samples in the buffer once the in-flight push has stored its sample.
VisStored ==
    IF w_pc \in {"store_pos", "store_front"} THEN Append(vis_pushed, w_sample)
                                             ELSE vis_pushed

\* The k-th completed block of h, as the reader would read it.
Block(h, k) == SubSeq(h, (k - 1) * VIS_BUFFER_SIZE + 1, k * VIS_BUFFER_SIZE)

ZeroBlock == [i \in 1 .. VIS_BUFFER_SIZE |-> 0]

\* C4: the writer never stores into the array the reader obtained from
\* read_front and is still reading, and what the reader has read when it
\* is through is one whole block (or the initial zeros), never a mixture.
C4_ReaderWriterDisjoint ==
    /\ ~raced
    /\ r_pc = "done" =>
          \/ r_copy = ZeroBlock
          \/ \E k \in 1 .. (Len(VisStored) \div VIS_BUFFER_SIZE) :
                r_copy = Block(VisStored, k)

\* C5: front is 0 or 1, write_pos is below VIS_BUFFER_SIZE, and whenever
\* push is about to store a sample the target buffer is 1 - front and not
\* the buffer that front names at that moment.
C5_StoreToBack ==
    /\ front \in {0, 1}
    /\ write_pos \in BufIdx
    /\ w_pc = "store_sample" =>
          /\ w_back = 1 - front
          /\ w_back # front
          /\ w_pos \in BufIdx

\* C5 witness: a store is about to happen after front has flipped to 1.
C5_Witness ==
    /\ w_pc = "store_sample"
    /\ front = 1
    /\ w_pos = VIS_BUFFER_SIZE - 1

\* C6: with no push in progress after n = k*B + r pushes, the front buffer
\* is all zeros when k = 0 and otherwise holds exactly the samples of the
\* k-th block, in push order.
C6_FrontIsLastBlock ==
    w_pc = "idle" =>
        LET k == Len(vis_pushed) \div VIS_BUFFER_SIZE
        IN  buffers[front] =
               IF k = 0 THEN ZeroBuffer
               ELSE [i \in BufIdx |-> vis_pushed[(k - 1) * VIS_BUFFER_SIZE + 1 + i]]

\* C6 witness: two whole blocks and part of a third have been pushed.
C6_Witness ==
    /\ w_pc = "idle"
    /\ Len(vis_pushed) = 2 * VIS_BUFFER_SIZE + 1
    /\ vis_pushed[VIS_BUFFER_SIZE + 1] # vis_pushed[1]

\* C7: front changes only in the store that ends the push which moved
\* write_pos back to 0, and then flips; a finished push has flipped front
\* exactly when it was a B-th push; no step of the reader changes buffers,
\* write_pos or front.
C7_FrontFlipsOnWrap ==
    [][/\ front' # front =>
              /\ front' = 1 - front
              /\ w_pc = "store_front"
              /\ write_pos = 0
              /\ Len(vis_pushed') = Len(vis_pushed) + 1
              /\ Len(vis_pushed') % VIS_BUFFER_SIZE = 0
       /\ Len(vis_pushed') = Len(vis_pushed) + 1 =>
              IF Len(vis_pushed') % VIS_BUFFER_SIZE = 0
                 THEN front' = 1 - w_front /\ write_pos' = 0
                 ELSE front' = w_front /\ front' = front /\ write_pos' # 0
       /\ vreader' # vreader => UNCHANGED <<vshared, vwriter>>]_vars

\* C7 witness: front is back at 0 after two flips while the reader is
\* walking an array.
C7_Witness ==
    /\ front = 0
    /\ Len(vis_pushed) = 2 * VIS_BUFFER_SIZE
    /\ r_pc = "reading"

-----------------------------------------------------------------------------
(* Envelope properties.                                                    *)

InUnit(x) == RLe(ZERO, x) /\ RLe(x, ONE)

C9_StageEdges ==
    [][LET s == env.stage
           t == env'.stage
       IN  /\ env_last' = "set" => t = s
           /\ env_last' = "note_on" => t = "Attack"
           /\ env_last' = "note_off" => t = IF s = "Idle" THEN "Idle" ELSE "Release"
           /\ env_last' = "tick" =>
                 \/ t = s
                 \/ /\ s = "Attack" /\ t = "Decay"
                    /\ RGe(RAdd(env.level, env.attack_rate), ONE)
                    /\ env'.level = ONE
                 \/ /\ s = "Decay" /\ t = "Sustain"
                    /\ RLe(RSub(env.level, env.decay_rate), env.sustain)
                    /\ env'.level = env.sustain
                 \/ /\ s = "Release" /\ t = "Idle"
                    /\ RLe(RSub(env.level, env.release_rate), ZERO)
                    /\ env'.level = ZERO
           /\ (env_last' = "tick" /\ s \in {"Sustain", "Idle"}) => t = s]_vars

\* C9 witness: the envelope has gone all the way round, a tick having taken
\* it from Release to Idle after a second note_off found it in Release.
C9_Witness ==
    /\ env_last = "tick"
    /\ env.stage = "Idle"
    /\ rel_obs = "again"
    /\ rel_ticks > 0

\* release_seconds * sample_rate
ReleaseSamples == RMul(env.release, env.sample_rate)

\* The observed release is still running before release_seconds*sample_rate
\* ticks and has reached Idle at the first tick count not below it.
ReleaseOnTime ==
    LET T == <<rel_ticks, 1>>
    IN  IF env.stage = "Release"
           THEN RLt(T, ReleaseSamples)
           ELSE /\ env.stage = "Idle"
                /\ RLe(ReleaseSamples, T)
                /\ RLt(T, RAdd(ReleaseSamples, ONE))

\* C10 as stated: after a note_off at a level above 0 in Attack, Decay or
\* Sustain, with no setter and no note_on called since, the envelope is Idle
\* after release_seconds*sample_rate ticks, whatever the level was.
C10_AsStated == rel_obs \in {"clean", "again"} => ReleaseOnTime

\* C10 amended: after a note_off at a level above 0 in Attack, Decay or
\* Sustain, with no setter, no note_on and no further note_off called since,
\* the envelope is still in Release before release_seconds*sample_rate
\* ticks and Idle from the first tick count that is not below it, whatever
\* the level was.
C10_ReleaseDuration == rel_obs = "clean" => ReleaseOnTime

\* C10 witness: a release begun at level 1/2 (rate 1/4 over two samples) has
\* reached Idle after two ticks.
C10_Witness ==
    /\ rel_obs = "clean"
    /\ env.stage = "Idle"
    /\ env_last = "tick"
    /\ rel_ticks = 2
    /\ env.release_rate = <<1, 4>>

\* C11: in every reachable state an Idle envelope has level 0, and
\* is_active() is true exactly in the four stages other than Idle.
C11_IdleAtZero ==
    /\ env.stage = "Idle" => env.level = ZERO
    /\ IsActive(env) = (env.stage \in {"Attack", "Decay", "Sustain", "Release"})

\* C11 witness: Idle was entered by a tick that ended a release of more
\* than one tick begun at a level above 0.
C11_Witness ==
    /\ env.stage = "Idle"
    /\ env_last = "tick"
    /\ rel_obs = "clean"
    /\ rel_ticks > 1
    /\ ~IsActive(env)

\* C12: on an Idle envelope tick returns 0 and neither tick nor note_off
\* changes the stage, the level or any of the three rates (nor any other
\* field), however many such calls are made.
C12_IdleFrame ==
    [][(env.stage = "Idle" /\ env_last' \in {"tick", "note_off"}) =>
          /\ env'.stage = "Idle"
          /\ env'.level = env.level
          /\ env'.attack_rate = env.attack_rate
          /\ env'.decay_rate = env.decay_rate
          /\ env'.release_rate = env.release_rate
          /\ env' = env
          /\ (env_last' = "tick" => env_out' = ZERO)]_vars

\* C12 witness: note_off was called on an envelope that a finished release
\* had brought to Idle, with a release rate other than 0 still stored and a
\* tick having returned 0.
C12_Witness ==
    /\ env.stage = "Idle"
    /\ env_last = "note_off"
    /\ note_offs > 0
    /\ env.release_rate # ZERO
    /\ env_out = ZERO

\* C13: note_on changes the stage and no other field, the level included;
\* and the first tick after a note_on made in Attack, Decay, Sustain or
\* Release (setters may come in between, note_off not) returns a level that
\* is not below the level just before that note_on.
C13_RetriggerKeepsLevel ==
    /\ [](on_obs.ticked =>
              /\ env_last = "tick"
              /\ on_obs.from \in {"Attack", "Decay", "Sustain", "Release"}
              /\ RLe(on_obs.level, env_out))
    /\ [][env_last' = "note_on" =>
              /\ env'.stage = "Attack"
              /\ env'.level = env.level
              /\ [env' EXCEPT !.stage = env.stage] = env]_vars

\* C13 witness: a note_on found the envelope in Release at a level above 0
\* and the tick after it returned a higher level.
C13_Witness ==
    /\ on_obs.ticked
    /\ on_obs.from = "Release"
    /\ RLt(ZERO, on_obs.level)
    /\ RLt(on_obs.level, env_out)

\* The least integer not below the positive rational x.
Ceil(x) == (x[1] + x[2] - 1) \div x[2]

\* attack_seconds * sample_rate
AttackSamples == RMul(env.attack, env.sample_rate)

\* The observed attack ramp has left Attack by the time it has been ticked
\* ceil(attack_seconds*sample_rate) times, and it entered Decay at level 1.
AttackOnTime ==
    atk_ticks >= 0 =>
        /\ env.stage = "Attack" => atk_ticks < Ceil(AttackSamples)
        /\ env.stage # "Attack" => atk_ticks <= Ceil(AttackSamples)
        /\ (env.stage = "Decay" /\ dec_ticks = 0) => env.level = ONE

\* C14 as stated: after note_on from Idle followed by ticks only, the stage
\* becomes Decay with level 1 within ceil(attack_seconds*sample_rate) ticks.
C14_AsStated == AttackOnTime

\* C14 amended: every tick in Attack leaves the level where it was or
\* higher, with exact and with rounded arithmetic alike; and after note_on
\* from Idle followed by ticks only, the stage becomes Decay with level 1
\* within ceil(attack_seconds*sample_rate) ticks when the rate and the sums
\* are computed without rounding.
C14_AttackRamp ==
    /\ [](mant_bits = 0 => AttackOnTime)
    /\ [][(env_last' = "tick" /\ env.stage = "Attack") =>
              /\ RLe(env.level, env'.level)
              /\ env_out' = env'.level]_vars

\* C14 witness: an attack of 7 samples, computed exactly, has reached level
\* 1 and Decay on its 7th tick.
C14_Witness ==
    /\ mant_bits = 0
    /\ atk_ticks = 7
    /\ env.stage = "Decay"
    /\ dec_ticks = 0
    /\ env.level = ONE
    /\ env_last = "tick"

\* decay_seconds * sample_rate
DecaySamples == RMul(env.decay, env.sample_rate)

\* The observed decay ramp has left Decay by the time it has been ticked
\* ceil(decay_seconds*sample_rate) times, and it is then in Sustain at the
\* sustain level.
DecayOnTime ==
    dec_ticks >= 0 =>
        /\ env.stage = "Decay" => dec_ticks < Ceil(DecaySamples)
        /\ env.stage # "Decay" =>
              /\ dec_ticks <= Ceil(DecaySamples)
              /\ env.stage = "Sustain"
              /\ env.level = env.sustain

\* C15 as stated: once Decay has been entered and only ticks follow, the
\* level has reached sustain_level (stage Sustain) by the first tick count
\* that is not below decay_seconds*sample_rate.
C15_AsStated == DecayOnTime

\* C15 amended: once Decay has been entered and only ticks follow, the
\* level has reached sustain_level by the first tick count not below
\* decay_seconds*sample_rate when the rate and the differences are computed
\* without rounding; and every step from Decay to Sustain, with exact and
\* with rounded arithmetic, also after set_sustain in Decay, is a tick that
\* leaves and returns the level equal to the sustain_level in force.
C15_DecayRamp ==
    /\ [](mant_bits = 0 => DecayOnTime)
    /\ [][(env.stage = "Decay" /\ env'.stage = "Sustain") =>
              /\ env_last' = "tick"
              /\ env'.sustain = env.sustain
              /\ env'.level = env.sustain
              /\ env_out' = env.sustain]_vars

\* C15 witness: a decay of 3 samples towards 3/4, computed exactly, has
\* arrived in Sustain at 3/4 on its 3rd tick.
C15_Witness ==
    /\ mant_bits = 0
    /\ dec_ticks = 3
    /\ env.stage = "Sustain"
    /\ env.level = <<3, 4>>
    /\ env.sustain = <<3, 4>>
    /\ env_last = "tick"

\* C16 as stated: in every reachable state with stage Sustain the level
\* equals the configured sustain_level.
C16_AsStated == env.stage = "Sustain" => env.level = env.sustain

\* C16 amended: Sustain is entered with the level equal to the
\* sustain_level then configured; while the stage stays Sustain no call,
\* set_sustain included, changes the level, and tick returns that level;
\* and only note_on or note_off ends Sustain.
C16_SustainHolds ==
    [][/\ (env.stage # "Sustain" /\ env'.stage = "Sustain") =>
              /\ env'.level = env'.sustain
              /\ env_out' = env'.sustain
       /\ (env.stage = "Sustain" /\ env'.stage = "Sustain") =>
              /\ env'.level = env.level
              /\ env_last' = "tick" => env_out' = env.level
       /\ (env.stage = "Sustain" /\ env'.stage # "Sustain") =>
              env_last' \in {"note_on", "note_off"}]_vars

\* C16 witness: a tick in Sustain has returned the level at which Sustain
\* was entered after set_sustain had configured another sustain_level.
C16_Witness ==
    /\ env.stage = "Sustain"
    /\ env_last = "tick"
    /\ env.level # env.sustain
    /\ env_out = env.level


TimesFloored ==
    /\ RGe(synth.envelope.attack, MIN_TIME)
    /\ RGe(synth.envelope.decay, MIN_TIME)
    /\ RGe(synth.envelope.release, MIN_TIME)

StoredTime(v) == IF RGe(v, MIN_TIME) THEN v ELSE MIN_TIME
StoredLevel(v) ==
    IF IsNaN(v) THEN NaN
    ELSE IF InUnit(v) THEN v ELSE IF RLt(v, ZERO) THEN ZERO ELSE ONE

-----------------------------------------------------------------------------
(* Synth properties.                                                       *)

\* C18: Synth::note_off(n) changes nothing when current_note is not
\* Some(n); when it is Some(n) the envelope goes to Release (its release
\* rate taken from the level, as Envelope::note_off does) and current_note
\* becomes None, the oscillator, the gain and the sample rate being kept.
C18_StaleNoteOff ==
    [][\A n \in SynNotes :
          syn_call' = <<"note_off", n>> =>
             IF synth.current_note = Some(n)
                THEN /\ synth'.envelope.stage = "Release"
                     /\ synth'.current_note = None
                     /\ [synth'.envelope EXCEPT !.stage = synth.envelope.stage,
                                                !.release_rate = synth.envelope.release_rate]
                           = synth.envelope
                     /\ [synth' EXCEPT !.envelope = synth.envelope,
                                       !.current_note = synth.current_note] = synth
                ELSE synth' = synth]_vars

\* a note_off for another note than the sounding one has just been ignored
C18_Witness ==
    /\ syn_call = <<"note_off", 57>>
    /\ synth.current_note = Some(69)
    /\ synth.envelope.stage = "Decay"

RECURSIVE OscTickN(_, _)
OscTickN(o, k) == IF k = 0 THEN o ELSE OscTickN(OscTick(o).osc, k - 1)

RECURSIVE EnvTickN(_, _)
EnvTickN(e, k) == IF k = 0 THEN e ELSE EnvTickN(Tick(e).env, k - 1)

\* Number of the first n samples at whose turn the envelope is still active
RECURSIVE ActiveCount(_, _)
ActiveCount(e, n) ==
    IF n = 0 \/ ~IsActive(e) THEN 0 ELSE 1 + ActiveCount(Tick(e).env, n - 1)

\* C19: a process call on a buffer of n samples ticks the oscillator and
\* the envelope once for each sample at whose turn the envelope is active
\* and not at all from the sample at which it is Idle; the samples from
\* there on are 0; a call entered in Idle writes only zeros and leaves the
\* oscillator phase, the triangle integrator and the envelope as they were.
C19_ProcessTicks ==
    [][syn_call'[1] = "process" =>
          LET n == syn_call'[2]
              k == ActiveCount(synth.envelope, n)
          IN  /\ Len(out_buf') = n
              /\ synth'.oscillator = OscTickN(synth.oscillator, k)
              /\ synth'.envelope = EnvTickN(synth.envelope, k)
              /\ \A i \in 1 .. n :
                     /\ i > k => out_buf'[i] = ZERO
                     /\ (i <= k) = (out_osc'[i] # <<>>)
                     /\ (i <= k) = (out_env'[i] # <<>>)
              /\ k < n => ~IsActive(synth'.envelope)
              /\ ~IsActive(synth.envelope) =>
                     /\ synth' = synth
                     /\ \A i \in 1 .. n : out_buf'[i] = ZERO]_vars

\* a block in which the envelope went Idle after its first sample
C19_Witness ==
    /\ syn_call = <<"process", 2>>
    /\ out_env[1] # <<>>
    /\ out_env[2] = <<>>
    /\ out_buf[2] = ZERO
    /\ synth.envelope.stage = "Idle"
    /\ synth.oscillator.phase # ZERO

\* C20: two engines given the same calls, set_gain values apart, have the
\* same oscillator, envelope and current_note after every call; every
\* sample written while active is oscillator sample x envelope level x
\* gain, so the two buffers differ by the gains only; gain 0 writes zeros.
C20_GainOnlyScales ==
    /\ [twin EXCEPT !.gain = synth.gain] = synth
    /\ Len(out_twin) = Len(out_buf)
    /\ Len(out_osc) = Len(out_buf)
    /\ Len(out_env) = Len(out_buf)
    /\ \A i \in 1 .. Len(out_buf) :
          /\ RMul(out_buf[i], twin.gain) = RMul(out_twin[i], synth.gain)
          /\ IF out_osc[i] = <<>>
                THEN out_buf[i] = ZERO /\ out_twin[i] = ZERO
                ELSE /\ out_buf[i] = RMul(RMul(out_osc[i], out_env[i]), synth.gain)
                     /\ out_twin[i] = RMul(RMul(out_osc[i], out_env[i]), twin.gain)
          /\ synth.gain = ZERO => out_buf[i] = ZERO
          /\ twin.gain = ZERO => out_twin[i] = ZERO

\* a block written at gain 0 by one engine and at gain 0.5 by the other
C20_Witness ==
    /\ syn_call = <<"process", 2>>
    /\ synth.gain = ZERO
    /\ twin.gain = HALF
    /\ out_buf[2] = ZERO
    /\ out_twin[2] = HALF
    /\ out_osc[2] = ONE
    /\ out_env[2] = ONE


\* C21: Synth::note_on(n, v) from any state sets current_note to Some(n),
\* sets the oscillator frequency (and phase_delta) to that of note n, zeroes
\* the phase and the triangle integrator and puts the envelope into Attack,
\* every other envelope field, the level included, being kept; the engine
\* given another velocity is in the same state afterwards.
C21_NoteOn ==
    [][syn_call'[1] = "note_on" =>
          LET n == syn_call'[2]
          IN  /\ synth'.current_note = Some(n)
              /\ synth'.oscillator =
                    [synth.oscillator EXCEPT
                        !.frequency = MidiNoteToFreq(n),
                        !.phase_delta = RDiv(MidiNoteToFreq(n), synth.oscillator.sample_rate),
                        !.phase = ZERO,
                        !.tri_integrator = ZERO]
              /\ synth'.envelope = [synth.envelope EXCEPT !.stage = "Attack"]
              /\ synth'.gain = synth.gain
              /\ synth'.sample_rate = synth.sample_rate
              /\ [twin' EXCEPT !.gain = synth'.gain] = synth']_vars

\* note 69 played over note 57 while that one was at full level
C21_Witness ==
    /\ syn_call = <<"note_on", 69, ONE>>
    /\ synth.current_note = Some(69)
    /\ synth.envelope.stage = "Attack"
    /\ synth.envelope.level = ONE
    /\ synth.oscillator.frequency = <<440, 1>>
    /\ synth.oscillator.phase = ZERO
    /\ samples_done > 0


-----------------------------------------------------------------------------
(* Oscillator properties.                                                  *)

\* C22 as stated: after every Oscillator::tick the phase is in [0, 1), for
\* every frequency and sample rate set, phase_delta of 1 or more included.
C22_PhaseInUnit ==
    osc_call = <<"tick">> => RLe(ZERO, osc.phase) /\ RLt(osc.phase, ONE)

\* The phase the k-th tick after a reset is said to use: (k * phase_delta) mod 1
PhaseOfTick(k, dt) == FRem1(RMul(<<k, 1>>, dt))

FreshLike(o) ==
    OscReset(OscSetType(OscSetFrequency(OscSetSampleRate(OscNew, o.sample_rate),
                                        o.frequency), o.osc_type))

\* The next n samples of o
RECURSIVE OscSamples(_, _)
OscSamples(o, n) ==
    IF n = 0 THEN <<>> ELSE <<OscTick(o).out>> \o OscSamples(OscTick(o).osc, n - 1)

C25_FromIndexClamps ==
    osc_call[1] = "set_type" =>
        osc.osc_type = CASE osc_call[2] = 0 -> "Sine"
                         [] osc_call[2] = 1 -> "Triangle"
                         [] osc_call[2] = 2 -> "Square"
                         [] osc_call[2] >= 3 -> "Saw"

C25_Witness ==
    /\ osc_call = <<"set_type", 2147483647>>
    /\ osc.osc_type = "Saw"
    /\ osc_ticks > 0


-----------------------------------------------------------------------------
(* NoteQueue: length of one drain.                                         *)

-----------------------------------------------------------------------------
(* WasmSynth: the visualisation ring.                                      *)

\* C27: after k calls of process_audio vis_write_pos is
\* (RENDER_QUANTUM * k) mod VIS_BUFFER_SIZE and below VIS_BUFFER_SIZE; a call
\* returns RENDER_QUANTUM samples, the ones it stored into vis_buffer from
\* the write position it found.
C27_VisRing ==
    /\ wasm.vis_write_pos = (RENDER_QUANTUM * wasm_calls) % WASM_VIS_BUFFER_SIZE
    /\ wasm.vis_write_pos < WASM_VIS_BUFFER_SIZE
    /\ wasm_call = "process_audio" =>
          /\ Len(wasm_ret) = RENDER_QUANTUM
          /\ \A i \in 1 .. RENDER_QUANTUM :
                wasm.vis_buffer[(wasm_prev_pos + i - 1) % WASM_VIS_BUFFER_SIZE]
                    = wasm_ret[i]

\* a call that has gone round the ring and stored a sounding sample
C27_Witness ==
    /\ wasm_call = "process_audio"
    /\ wasm_calls * RENDER_QUANTUM > WASM_VIS_BUFFER_SIZE
    /\ \E i \in 1 .. RENDER_QUANTUM : wasm_ret[i] # ZERO

\* C28: vis_ready() returns true exactly when vis_write_pos has gone back
\* to 0 since the previous vis_ready() call (or since construction), and
\* leaves the flag cleared, so that the next call returns false unless the
\* position has gone back to 0 again.
C28_VisReady ==
    /\ wasm.vis_ready = wrapped_since
    /\ wasm_call = "vis_ready" =>
          /\ wasm_ret = wrapped_obs
          /\ ~wasm.vis_ready

\* vis_ready() has returned true
C28_Witness ==
    /\ wasm_call = "vis_ready"
    /\ wasm_ret = TRUE
    /\ wasm_prev_pos + RENDER_QUANTUM >= WASM_VIS_BUFFER_SIZE

-----------------------------------------------------------------------------
(* midi_note_to_freq.                                                      *)

\* C29: midi_note_to_freq(n) is 440 * 2^((n - 69) / 12) for n in 0 ..= 127:
\* positive and finite, 440 for n = 69, a semitone (between 1.04 and 1.08
\* times) below midi_note_to_freq(n + 1), and half midi_note_to_freq(n + 12)
\* within the tolerance of powf.
C29_EqualTemperament ==
    midi_note >= 0 =>
        /\ RLt(ZERO, midi_freq)
        /\ RLt(midi_freq, <<16384, 1>>)
        /\ midi_note = 69 => midi_freq = <<440, 1>>
        /\ midi_note < MaxNote =>
              \A g \in MidiNoteToFreqs(midi_note + 1) :
                  /\ RLt(midi_freq, g)
                  /\ RLt(RMul(midi_freq, <<26, 25>>), g)
                  /\ RLt(g, RMul(midi_freq, <<27, 25>>))
        /\ midi_note + 12 <= MaxNote =>
              \A g \in MidiNoteToFreqs(midi_note + 12) :
                  LET d == RSub(g, RMul(TWO, midi_freq))
                  IN  /\ RLe(RMul(d, <<256, 1>>), g)
                      /\ RLe(RMul(d, <<-256, 1>>), g)

\* middle C, 261.63 Hz
C29_Witness ==
    /\ midi_note = 60
    /\ RLt(<<261, 1>>, midi_freq)
    /\ RLt(midi_freq, <<263, 1>>)

-----------------------------------------------------------------------------
(* Envelope: the end of a release.                                         *)

\* C30: an envelope in Release becomes Idle with level 0 under repeated
\* ticks unless note_on is called, whatever the parameters and whichever of
\* set_release, set_sustain and set_sample_rate are called meanwhile.
C30_ReleaseEnds ==
    (env.stage = "Release") ~>
        ((env.stage = "Idle" /\ env.level = ZERO) \/ env_last = "note_on")

-----------------------------------------------------------------------------
(* Envelope: a setter called with the value in force.                      *)

\* The per-sample rate a tick of e uses
RateInUse(e) ==
    CASE e.stage = "Attack"  -> e.attack_rate
      [] e.stage = "Decay"   -> e.decay_rate
      [] e.stage = "Release" -> e.release_rate
      [] OTHER -> ZERO

\* C31: a setter call that leaves attack, decay, sustain, release and
\* sample_rate as they were leaves the stage, the level and the rate in use
\* as they were, in every stage.
C31_SetterIdempotent ==
    [][(/\ env_last' = "set"
        /\ env'.attack = env.attack
        /\ env'.decay = env.decay
        /\ env'.sustain = env.sustain
        /\ env'.release = env.release
        /\ env'.sample_rate = env.sample_rate)
       => (/\ env'.stage = env.stage
           /\ env'.level = env.level
           /\ RateInUse(env') = RateInUse(env))]_vars

-----------------------------------------------------------------------------
(* Synth: the note held.                                                   *)

\* C36: current_note is Some exactly while the envelope is in Attack, Decay
\* or Sustain; in Release and Idle it is None, so that a second note_off for
\* the same note finds no note to release.
C36_NoteWhileHeld ==
    /\ synth.current_note # None <=>
          synth.envelope.stage \in {"Attack", "Decay", "Sustain"}
    /\ synth.envelope.stage \in {"Release", "Idle"} => synth.current_note = None

\* the note released has been released again, in Release
C36_Witness ==
    /\ syn_call = <<"note_off", 69>>
    /\ synth.envelope.stage = "Release"
    /\ synth.current_note = None
    /\ RLt(synth.envelope.level, synth.envelope.sustain)

-----------------------------------------------------------------------------
(* NoteQueue: the two heads.                                               *)

\* Events accepted and not yet released by drain: the callback of the slot
\* at read_head has returned when drain is about to store read_head
Pending ==
    Len(pushed) - Len(delivered) + (IF c_pc = "store_tail" THEN 1 ELSE 0)

\* C37: write_head and read_head stay in [0, NOTE_QUEUE_SIZE) and the
\* number of queued events, (write_head - read_head) mod NOTE_QUEUE_SIZE, is
\* at most NOTE_QUEUE_SIZE - 1 and is the number of events accepted and not
\* yet released; write_head changes only in the last step of a push that
\* returns true, read_head only in drain, by one slot, after the callback
\* for the event of that slot has returned.
C37_HeadsInRing ==
    /\ [](/\ write_head \in Slots
          /\ read_head \in Slots
          /\ Queued <= NOTE_QUEUE_SIZE - 1
          /\ Queued = Pending)
    /\ [][(write_head' # write_head =>
              /\ p_pc = "store_head"
              /\ push_ret' = TRUE
              /\ write_head' = (write_head + 1) % NOTE_QUEUE_SIZE
              /\ read_head' = read_head)
          /\
          (read_head' # read_head =>
              /\ c_pc = "store_tail"
              /\ read_head' = (read_head + 1) % NOTE_QUEUE_SIZE
              /\ delivered' = delivered
              /\ delivered[Len(delivered)] = Decode(slots[read_head]))]_vars

\* drain is about to release a slot of a full ring whose write index has
\* wrapped behind the read index
C37_Witness ==
    /\ c_pc = "store_tail"
    /\ Queued = NOTE_QUEUE_SIZE - 1
    /\ write_head < read_head
    /\ Len(delivered) > 1

-----------------------------------------------------------------------------
(* NoteQueue: the encoding of an event.                                    *)

\* C38: the pair drain hands to the callback has the direction that was
\* pushed and the low 7 bits of the note that was pushed, which for a note
\* of 0 ..= 127 is the note itself, note-on 127 (stored as 0xFF, the value
\* of an empty slot) included.
C38_EncodingRoundTrip ==
    (q_last = "drain" /\ Len(pushed) = 1) =>
        /\ Len(delivered) = 1
        /\ delivered[1][1] = pushed[1][1]
        /\ delivered[1][2] = pushed[1][2] % 128
        /\ delivered[1][2] \in 0 .. 127
        /\ pushed[1][2] <= 127 => delivered = pushed

\* note-on 127 has been stored as the value of an empty slot and delivered
C38_Witness ==
    /\ q_last = "drain"
    /\ pushed = << <<TRUE, 127>> >>
    /\ slots[0] = EMPTY_SLOT
    /\ delivered = << <<TRUE, 127>> >>

-----------------------------------------------------------------------------
(* PianoKeyboard: the notes of the keys, the note the mouse holds.         *)

\* The events the mouse handling pushed in the last frame: those before the
\* events of the key input
FrameMouseEvents ==
    SubSeq(kb_events, 1,
           Len(kb_events)
             - Len(KeyInteract(EffectiveFirstNote(kb_in.octave_offset),
                               kb_in.key_event)))

\* C39: the mouse holds at most one note.  A frame pushes NoteOn(n) for the
\* mouse only when the pointer is down on the key of a note n that is not
\* the note held, after NoteOff(old) of the same frame when another note
\* was held; a frame with the pointer up pushes NoteOff of the note held,
\* once, and holds none; over the frames the mouse events alternate
\* NoteOn(n), NoteOff(n), the note held being the one of an unanswered
\* NoteOn.
C39_MouseHoldsOneNote ==
    kb_frames > 0 =>
        LET me   == FrameMouseEvents
            on   == kb_in.down /\ kb_in.clicked # 0
            note == kb_layout[kb_in.clicked]
            off  == IF kb_prev # None THEN <<NoteOffEvent(kb_prev[1])>> ELSE <<>>
        IN  /\ (on /\ kb_prev # Some(note)) =>
                  /\ me = off \o <<NoteOnEvent(note)>>
                  /\ mouse_note = Some(note)
            /\ (on /\ kb_prev = Some(note)) => (me = <<>> /\ mouse_note = kb_prev)
            /\ (kb_in.down /\ kb_in.clicked = 0) =>
                  (me = <<>> /\ mouse_note = kb_prev)
            /\ ~kb_in.down => (me = off /\ mouse_note = None)
            /\ \A i \in 1 .. Len(mouse_log) :
                  IF i % 2 = 1
                     THEN mouse_log[i][1] = "NoteOn"
                     ELSE mouse_log[i] = NoteOffEvent(mouse_log[i - 1][2])
            /\ mouse_note = IF Len(mouse_log) % 2 = 1
                               THEN Some(mouse_log[Len(mouse_log)][2])
                               ELSE None

\* the pointer has gone from the key of one note to the key of another in
\* one frame, the first note released and the second started
C39_Witness ==
    /\ kb_frames > 1
    /\ kb_prev # None
    /\ mouse_note # None
    /\ mouse_note # kb_prev
    /\ FrameMouseEvents = <<NoteOffEvent(kb_prev[1]), NoteOnEvent(mouse_note[1])>>
    /\ Len(mouse_log) = 3

\* C40: whatever i8 the octave offset is, the first note is in 0 ..= 103
\* (the i16 sum it is clamped from does not overflow), so the 25 notes of
\* the layout are first_note + 0 ..= 24 and the note of a mapped key is
\* first_note + 0 ..= 14 without wrapping in u8, all of them in 0 ..= 127.
C40_NotesInMidiRange ==
    kb_frames > 0 =>
        LET o     == kb_in.octave_offset
            first == EffectiveFirstNote(o)
        IN  /\ FIRST_NOTE + o * 12 \in -32768 .. 32767
            /\ first \in 0 .. 103
            /\ \A i \in 1 .. Len(KEY_MAP) : first + KEY_MAP[i] <= 127
            /\ Len(kb_layout) = 25
            /\ \A i \in 1 .. Len(kb_layout) :
                  /\ kb_layout[i] = kb_layout[1] + (i - 1)
                  /\ kb_layout[i] \in 0 .. 127
            /\ \A i \in 1 .. Len(kb_events) : kb_events[i][2] \in 0 .. 127
            /\ (kb_in.key_event # <<>> /\ ~kb_in.key_event.repeat
                   /\ kb_in.key_event.key # 0) =>
                  kb_events[Len(kb_events)][2]
                      = kb_layout[1] + KEY_MAP[kb_in.key_event.key]

\* the highest octave offset: the first note is clamped to 103, the last
\* key of the layout is note 127 and the last mapped key plays 117
C40_Witness ==
    /\ kb_in # <<>>
    /\ kb_in.octave_offset = 127
    /\ kb_layout[1] = 103
    /\ kb_layout[25] = 127
    /\ kb_events = <<NoteOnEvent(117)>>

-----------------------------------------------------------------------------
(* SimpleSynth: one process call.                                          *)

\* The entries of one kind of what a call did, in order
OfKind(log, kind) == SelectSeq(log, LAMBDA e : e.kind = kind)

\* Samples the engine had rendered before entry i of the log
RECURSIVE RenderedBefore(_, _)
RenderedBefore(log, i) ==
    IF i <= 1 THEN 0
    ELSE RenderedBefore(log, i - 1)
           + (IF log[i - 1].kind = "process" THEN log[i - 1].idx ELSE 0)

\* Samples written to the output before entry i of the log
WrittenBefore(log, i) == Len(OfKind(SubSeq(log, 1, i - 1), "write"))

\* The last host event applied before entry i of the log, 0 if none
RECURSIVE HostBefore(_, _)
HostBefore(log, i) ==
    IF i <= 1 THEN 0
    ELSE IF log[i - 1].kind = "host" THEN i - 1
    ELSE HostBefore(log, i - 1)

C33_EverySampleOnce ==
    plug_call = <<"process">> =>
        LET log    == plug_res.log
            n      == plug_in.num_samples
            writes == OfKind(log, "write")
            vis    == OfKind(log, "vis")
            blocks == OfKind(log, "block")
        IN  /\ Len(writes) = n
            /\ \A k \in 1 .. Len(writes) :
                  /\ writes[k].idx = k - 1
                  /\ k <= Len(plug_res.out0) => plug_res.out0[k] = writes[k].val
            /\ Len(plug_res.out0) = n
            /\ plug_res.out1 = plug_res.out0
            /\ \A k \in 1 .. Len(plug_res.out0) : plug_res.out0[k] # <<>>
            /\ Len(vis) = n
            /\ \A k \in 1 .. Len(vis) :
                  k <= Len(writes) => vis[k].val = writes[k].val
            /\ \A k \in 1 .. Len(blocks) :
                  /\ blocks[k].idx < blocks[k].val
                  /\ blocks[k].idx = IF k = 1 THEN 0 ELSE blocks[k - 1].val
            /\ Len(blocks) > 0 => blocks[Len(blocks)].val = n
            /\ (n > 0) = (Len(blocks) > 0)
            /\ Len(OfKind(log, "host")) + Len(blocks) <= Len(plug_in.events) + n

\* a held note rendered as one block longer than mono_buf: two calls of
\* the engine, the second written after the first
C33_Witness ==
    /\ plug_call = <<"process">>
    /\ plug_before = << <<TRUE, 57>> >>
    /\ plug_in.events = <<>>
    /\ plug_in.num_samples = MaxFrames
    /\ Len(OfKind(plug_res.log, "block")) = 1
    /\ Len(OfKind(plug_res.log, "process")) = 2
    /\ plug_res.out0[2] # ZERO
    /\ plug_res.out0[MaxFrames] # <<>>

\* C34: every event process takes from the host is applied before the
\* call returns, whatever its timing and also when the buffer is empty.
C34_TakenApplied ==
    plug_call = <<"process">> =>
        Len(OfKind(plug_res.log, "host")) = plug_res.taken

\* C35: the events pushed to the queue before a process call are applied
\* by it in the order they were pushed, before anything is rendered,
\* written or pushed to the scope and before any event of the host, and
\* the queue is left empty.
C35_QueuedFirst ==
    plug_call = <<"process">> =>
        LET log == plug_res.log
            k   == Len(plug_before)
        IN  /\ Len(log) >= k
            /\ \A i \in 1 .. Len(log) :
                  IF i <= k
                     THEN /\ log[i].kind = "queue"
                          /\ <<log[i].val, log[i].idx>> = plug_before[i]
                     ELSE log[i].kind # "queue"
            /\ plug.note_queue.read_head = plug.note_queue.write_head

\* a note-on and a note-off of the on-screen keyboard were waiting when the
\* host started the same note at sample 0: both are applied first, then
\* the event of the host, and the note sounds
C35_Witness ==
    /\ plug_call = <<"process">>
    /\ plug_before = << <<TRUE, 57>>, <<FALSE, 57>> >>
    /\ plug_in.num_samples = MaxFrames
    /\ Len(plug_in.events) = 1
    /\ Len(plug_res.log) > 3
    /\ plug_res.log[3].kind = "host"
    /\ plug_res.out0[2] # ZERO

====
